---- MODULE Spec2Model ----
(***************************************************************************)
(* A model of the gate-application core of pennylane-lightning:            *)
(*   - the index generator (Apply.cpp, simulator/SimulatorUtil.cpp),       *)
(*   - the gate catalogue and its dispatch table (Gates.cpp),              *)
(*   - the apply driver (Apply.cpp).                                       *)
(*                                                                         *)
(* Amplitudes are exact elements of the ring Z[z][1/2], z = exp(i*pi/4):   *)
(* <<a, b, c, d, k>> stands for (a + b*z + c*z^2 + d*z^3) / 2^k, kept in   *)
(* lowest terms.  Rotation angles are integers counting multiples of pi/2, *)
(* the grid on which every matrix entry of the catalogue lies in the ring. *)
(***************************************************************************)
EXTENDS Integers, Sequences, FiniteSets, TLC

\* ------------------------------------------------------------------ bounds

MaxQubits == 3

MaxWires == 3

\* ------------------------------------------------------------ sequences

Range(s) == {s[j] : j \in 1..Len(s)}

NoDup(s) == \A p, q \in 1..Len(s) : p # q => s[p] # s[q]

SeqsUpTo(S, m) == UNION {[1..l -> S] : l \in 0..m}

Reverse(s) == [j \in 1..Len(s) |-> s[Len(s) + 1 - j]]

Min(S) == CHOOSE x \in S : \A y \in S : x <= y

\* iteration of a std::set<unsigned>: ascending order of the keys
RECURSIVE SetToVector(_)
SetToVector(S) ==
    IF S = {} THEN <<>> ELSE <<Min(S)>> \o SetToVector(S \ {Min(S)})

\* ----------------------------------------------------------- Util.hpp

exp2(k) == 2 ^ k

maxDecimalForQubit(qubitIndex, qubits) == exp2(qubits - qubitIndex - 1)

\* ------------------------------------------------ index generator, Apply.cpp

\* the loop `for (excludedIndex : indicesToExclude) indices.erase(excludedIndex)`
RECURSIVE eraseLoop(_, _, _)
eraseLoop(indices, indicesToExclude, j) ==
    IF j > Len(indicesToExclude) THEN indices
    ELSE eraseLoop(indices \ {indicesToExclude[j]}, indicesToExclude, j + 1)

\* a slip: only the first excluded index is erased
getIndicesAfterExclusion_first(indicesToExclude, qubits) ==
    SetToVector(IF indicesToExclude = <<>> THEN 0..(qubits - 1)
                ELSE (0..(qubits - 1)) \ {indicesToExclude[1]})

getIndicesAfterExclusion(indicesToExclude, qubits) ==
    LET indices == {i \in 0..(qubits - 1) : TRUE}
    IN  SetToVector(eraseLoop(indices, indicesToExclude, 1))

\* the body of `for (int i = qubitIndices.size() - 1; i >= 0; i--)`;
\* i is the 1-based position of the wire being processed
RECURSIVE bitPatternLoop(_, _, _, _)
bitPatternLoop(qubitIndices, qubits, i, indices) ==
    IF i < 1 THEN indices
    ELSE LET value == maxDecimalForQubit(qubitIndices[i], qubits)
             currentSize == Len(indices)
         IN  bitPatternLoop(qubitIndices, qubits, i - 1,
                 indices \o [j \in 1..currentSize |-> indices[j] + value])

\* a slip: the offset is taken from the loop position, not from the wire
RECURSIVE positionLoop(_, _, _, _)
positionLoop(qubitIndices, qubits, i, indices) ==
    IF i < 1 THEN indices
    ELSE LET value == exp2(i - 1)
             currentSize == Len(indices)
         IN  positionLoop(qubitIndices, qubits, i - 1,
                 indices \o [j \in 1..currentSize |-> indices[j] + value])

generateBitPatterns_byPosition(qubitIndices, qubits) ==
    positionLoop(qubitIndices, qubits, Len(qubitIndices), <<0>>)

\* a slip: the loop stops at `i > 0`, so the first wire is never processed
generateBitPatterns_skipFirst(qubitIndices, qubits) ==
    IF Len(qubitIndices) = 0 THEN <<0>>
    ELSE bitPatternLoop(Tail(qubitIndices), qubits, Len(qubitIndices) - 1, <<0>>)

\* a slip: the wires are walked first to last
generateBitPatterns_forward(qubitIndices, qubits) ==
    bitPatternLoop(Reverse(qubitIndices), qubits, Len(qubitIndices), <<0>>)

generateBitPatterns(qubitIndices, qubits) ==
    bitPatternLoop(qubitIndices, qubits, Len(qubitIndices), <<0>>)

\* ------------------------------------- index generator, SimulatorUtil.cpp

IndicesUtil_getIndicesAfterExclusion(indicesToExclude, num_qubits) ==
    LET indices == {i \in 0..(num_qubits - 1) : TRUE}
    IN  SetToVector(eraseLoop(indices, indicesToExclude, 1))

\* the loop over the reverse iterator: `rest` is what rbegin()..rend() has
\* still to visit, in visiting order
RECURSIVE reverseIterLoop(_, _, _)
reverseIterLoop(rest, num_qubits, indices) ==
    IF rest = <<>> THEN indices
    ELSE LET value == maxDecimalForQubit(Head(rest), num_qubits)
             currentSize == Len(indices)
         IN  reverseIterLoop(Tail(rest), num_qubits,
                 indices \o [j \in 1..currentSize |-> indices[j] + value])

IndicesUtil_generateBitPatterns(qubitIndices, num_qubits) ==
    reverseIterLoop(Reverse(qubitIndices), num_qubits, <<0>>)

\* --------------------------------------------------- amplitudes: CplxType

\* lowest terms of (a + b*z + c*z^2 + d*z^3) / 2^k
RECURSIVE CNorm(_)
CNorm(x) ==
    IF x[5] > 0 /\ x[1] % 2 = 0 /\ x[2] % 2 = 0 /\ x[3] % 2 = 0 /\ x[4] % 2 = 0
    THEN CNorm(<<x[1] \div 2, x[2] \div 2, x[3] \div 2, x[4] \div 2, x[5] - 1>>)
    ELSE x

\* CplxType(re, im) for integers re, im
Cplx(re, im) == <<re, 0, im, 0, 0>>

ZERO == Cplx(0, 0)

ONE == Cplx(1, 0)

\* Util.hpp: IMAG = (0, 1)
IMAG == Cplx(0, 1)

\* Util.hpp: SQRT2INV = 1/sqrt(2) = (z - z^3) / 2
SQRT2INV == <<0, 1, 0, -1, 1>>

\* operator+ of std::complex
CAdd(x, y) ==
    LET k == IF x[5] > y[5] THEN x[5] ELSE y[5]
        fx == exp2(k - x[5])
        fy == exp2(k - y[5])
    IN  CNorm(<<fx * x[1] + fy * y[1], fx * x[2] + fy * y[2],
                fx * x[3] + fy * y[3], fx * x[4] + fy * y[4], k>>)

\* unary operator- of std::complex
CNeg(x) == <<0 - x[1], 0 - x[2], 0 - x[3], 0 - x[4], x[5]>>

\* operator- of std::complex
CSub(x, y) == CAdd(x, CNeg(y))

\* operator* of std::complex; z^4 = -1
CMul(x, y) ==
    CNorm(<<x[1] * y[1] - x[2] * y[4] - x[3] * y[3] - x[4] * y[2],
            x[1] * y[2] + x[2] * y[1] - x[3] * y[4] - x[4] * y[3],
            x[1] * y[3] + x[2] * y[2] + x[3] * y[1] - x[4] * y[4],
            x[1] * y[4] + x[2] * y[3] + x[3] * y[2] + x[4] * y[1],
            x[5] + y[5]>>)

\* std::conj; conj(z) = -z^3
CConj(x) == <<x[1], 0 - x[4], 0 - x[3], 0 - x[2], x[5]>>

\* std::pow(M_E, CplxType(0, m * pi / 4)) = z^m
ExpI(m) ==
    LET r == m % 8
    IN  CASE r = 0 -> <<1, 0, 0, 0, 0>>
          [] r = 1 -> <<0, 1, 0, 0, 0>>
          [] r = 2 -> <<0, 0, 1, 0, 0>>
          [] r = 3 -> <<0, 0, 0, 1, 0>>
          [] r = 4 -> <<-1, 0, 0, 0, 0>>
          [] r = 5 -> <<0, -1, 0, 0, 0>>
          [] r = 6 -> <<0, 0, -1, 0, 0>>
          [] r = 7 -> <<0, 0, 0, -1, 0>>

\* std::cos(m * pi / 4) = (z^m + z^-m) / 2
Cos(m) == CMul(CAdd(ExpI(m), ExpI(0 - m)), <<1, 0, 0, 0, 1>>)

\* std::sin(m * pi / 4) = -i * (z^m - z^-m) / 2
Sin(m) == CMul(CMul(CNeg(IMAG), CSub(ExpI(m), ExpI(0 - m))), <<1, 0, 0, 0, 1>>)

\* ------------------------------------------------ gate catalogue, Gates.cpp

\* what a call yields when it throws std::invalid_argument; `kind` names the
\* throw statement
Throw(kind) == [thrown |-> kind]

Thrown(r) == "thrown" \in DOMAIN r

\* validateLength: TRUE when it returns, FALSE when it throws
validateLength(vec, requiredLength) == Len(vec) = requiredLength

SingleQubitGate == 1

TwoQubitGate == 2

ThreeQubitGate == 3

\* AbstractGate(numQubits): numQubits and length = exp2(numQubits)
AbstractGate(label, numQubits, matrix, members) ==
    [label |-> label, numQubits |-> numQubits, length |-> exp2(numQubits),
     matrix |-> matrix, m |-> members]

NoMembers == [none |-> ZERO]

XGate_create(parameters) ==
    IF ~validateLength(parameters, 0) THEN Throw("BadParameterCount")
    ELSE AbstractGate("PauliX", SingleQubitGate,
             <<ZERO, ONE,
               ONE, ZERO>>, NoMembers)

YGate_create(parameters) ==
    IF ~validateLength(parameters, 0) THEN Throw("BadParameterCount")
    ELSE AbstractGate("PauliY", SingleQubitGate,
             <<ZERO, CNeg(IMAG),
               IMAG, ZERO>>, NoMembers)

ZGate_create(parameters) ==
    IF ~validateLength(parameters, 0) THEN Throw("BadParameterCount")
    ELSE AbstractGate("PauliZ", SingleQubitGate,
             <<ONE, ZERO,
               ZERO, CNeg(ONE)>>, NoMembers)

HadamardGate_create(parameters) ==
    IF ~validateLength(parameters, 0) THEN Throw("BadParameterCount")
    ELSE AbstractGate("Hadamard", SingleQubitGate,
             <<SQRT2INV, SQRT2INV,
               SQRT2INV, CNeg(SQRT2INV)>>, NoMembers)

SGate_create(parameters) ==
    IF ~validateLength(parameters, 0) THEN Throw("BadParameterCount")
    ELSE AbstractGate("S", SingleQubitGate,
             <<ONE, ZERO,
               ZERO, IMAG>>, NoMembers)

\* TGate::shift = pow(M_E, CplxType(0, M_PI / 4))
TGate_shift == ExpI(1)

TGate_create(parameters) ==
    IF ~validateLength(parameters, 0) THEN Throw("BadParameterCount")
    ELSE AbstractGate("T", SingleQubitGate,
             <<ONE, ZERO,
               ZERO, TGate_shift>>, NoMembers)

RotationXGate_create(parameters) ==
    IF ~validateLength(parameters, 1) THEN Throw("BadParameterCount")
    ELSE LET rotationAngle == parameters[1]
             c == Cos(rotationAngle)
             js == CMul(IMAG, Sin(0 - rotationAngle))
         IN  AbstractGate("RX", SingleQubitGate,
                 <<c, js,
                   js, c>>, [c |-> c, js |-> js])

RotationYGate_create(parameters) ==
    IF ~validateLength(parameters, 1) THEN Throw("BadParameterCount")
    ELSE LET rotationAngle == parameters[1]
             c == Cos(rotationAngle)
             s == Sin(rotationAngle)
         IN  AbstractGate("RY", SingleQubitGate,
                 <<c, CNeg(s),
                   s, c>>, [c |-> c, s |-> s])

RotationZGate_create(parameters) ==
    IF ~validateLength(parameters, 1) THEN Throw("BadParameterCount")
    ELSE LET rotationAngle == parameters[1]
             first == ExpI(0 - rotationAngle)
             second == ExpI(rotationAngle)
         IN  AbstractGate("RZ", SingleQubitGate,
                 <<first, ZERO,
                   ZERO, second>>, [first |-> first, second |-> second])

PhaseShiftGate_create(parameters) ==
    IF ~validateLength(parameters, 1) THEN Throw("BadParameterCount")
    ELSE LET rotationAngle == parameters[1]
             shift == ExpI(2 * rotationAngle)
         IN  AbstractGate("PhaseShift", SingleQubitGate,
                 <<ONE, ZERO,
                   ZERO, shift>>, [shift |-> shift])

\* the members c, s, r1..r4 of GeneralRotationGate and CGeneralRotationGate
RotMembers(phi, theta, omega) ==
    LET c == Cos(theta)
        s == Sin(theta)
    IN  [c |-> c, s |-> s,
         r1 |-> CMul(c, ExpI(0 - phi - omega)),
         r2 |-> CMul(CNeg(s), ExpI(phi - omega)),
         r3 |-> CMul(s, ExpI(0 - phi + omega)),
         r4 |-> CMul(c, ExpI(phi + omega))]

GeneralRotationGate_create(parameters) ==
    IF ~validateLength(parameters, 3) THEN Throw("BadParameterCount")
    ELSE LET r == RotMembers(parameters[1], parameters[2], parameters[3])
         IN  AbstractGate("Rot", SingleQubitGate,
                 <<r.r1, r.r2,
                   r.r3, r.r4>>, r)

CNOTGate_create(parameters) ==
    IF ~validateLength(parameters, 0) THEN Throw("BadParameterCount")
    ELSE AbstractGate("CNOT", TwoQubitGate,
             <<ONE, ZERO, ZERO, ZERO,
               ZERO, ONE, ZERO, ZERO,
               ZERO, ZERO, ZERO, ONE,
               ZERO, ZERO, ONE, ZERO>>, NoMembers)

SWAPGate_create(parameters) ==
    IF ~validateLength(parameters, 0) THEN Throw("BadParameterCount")
    ELSE AbstractGate("SWAP", TwoQubitGate,
             <<ONE, ZERO, ZERO, ZERO,
               ZERO, ZERO, ONE, ZERO,
               ZERO, ONE, ZERO, ZERO,
               ZERO, ZERO, ZERO, ONE>>, NoMembers)

CZGate_create(parameters) ==
    IF ~validateLength(parameters, 0) THEN Throw("BadParameterCount")
    ELSE AbstractGate("CZ", TwoQubitGate,
             <<ONE, ZERO, ZERO, ZERO,
               ZERO, ONE, ZERO, ZERO,
               ZERO, ZERO, ONE, ZERO,
               ZERO, ZERO, ZERO, CNeg(ONE)>>, NoMembers)

\* the 4x4 matrix that is the identity on rows 0..1 and <<a, b, c, d>> on
\* rows 2..3
Controlled(a, b, c, d) ==
    <<ONE, ZERO, ZERO, ZERO,
      ZERO, ONE, ZERO, ZERO,
      ZERO, ZERO, a, b,
      ZERO, ZERO, c, d>>

CRotationXGate_create(parameters) ==
    IF ~validateLength(parameters, 1) THEN Throw("BadParameterCount")
    ELSE LET rotationAngle == parameters[1]
             c == Cos(rotationAngle)
             js == CMul(IMAG, Sin(0 - rotationAngle))
         IN  AbstractGate("CRX", TwoQubitGate, Controlled(c, js, js, c),
                 [c |-> c, js |-> js])

CRotationYGate_create(parameters) ==
    IF ~validateLength(parameters, 1) THEN Throw("BadParameterCount")
    ELSE LET rotationAngle == parameters[1]
             c == Cos(rotationAngle)
             s == Sin(rotationAngle)
         IN  AbstractGate("CRY", TwoQubitGate, Controlled(c, CNeg(s), s, c),
                 [c |-> c, s |-> s])

CRotationZGate_create(parameters) ==
    IF ~validateLength(parameters, 1) THEN Throw("BadParameterCount")
    ELSE LET rotationAngle == parameters[1]
             first == ExpI(0 - rotationAngle)
             second == ExpI(rotationAngle)
         IN  AbstractGate("CRZ", TwoQubitGate,
                 Controlled(first, ZERO, ZERO, second),
                 [first |-> first, second |-> second])

CGeneralRotationGate_create(parameters) ==
    IF ~validateLength(parameters, 3) THEN Throw("BadParameterCount")
    ELSE LET r == RotMembers(parameters[1], parameters[2], parameters[3])
         IN  AbstractGate("CRot", TwoQubitGate,
                 Controlled(r.r1, r.r2, r.r3, r.r4), r)

\* the 8x8 permutation matrix that exchanges rows p and q (0-based) of the
\* identity
Exchange8(p, q) ==
    [x \in 1..64 |->
        LET row == (x - 1) \div 8
            col == (x - 1) % 8
            src == IF row = p THEN q ELSE IF row = q THEN p ELSE row
        IN  IF col = src THEN ONE ELSE ZERO]

ToffoliGate_create(parameters) ==
    IF ~validateLength(parameters, 0) THEN Throw("BadParameterCount")
    ELSE AbstractGate("Toffoli", ThreeQubitGate, Exchange8(6, 7), NoMembers)

CSWAPGate_create(parameters) ==
    IF ~validateLength(parameters, 0) THEN Throw("BadParameterCount")
    ELSE AbstractGate("CSWAP", ThreeQubitGate, Exchange8(5, 6), NoMembers)

\* `while (size >>= 1) ++numQubits;`
RECURSIVE shiftLoop(_, _)
shiftLoop(size, numQubits) ==
    IF size \div 2 = 0 THEN numQubits
    ELSE shiftLoop(size \div 2, numQubits + 1)

\* ThreeQubitUnitary::create, for a parameter list of even length (with an
\* odd length the last step of the loop reads parameters[size])
ThreeQubitUnitary_create(parameters) ==
    LET size == Len(parameters)
        unitary == [e \in 1..(size \div 2) |->
                        Cplx(parameters[2 * e - 1], parameters[2 * e])]
        numQubits == shiftLoop(size, 0)
    IN  AbstractGate("QubitUnitary", numQubits, unitary, NoMembers)

\* GateType::create for the gate class named
create(GateType, parameters) ==
    CASE GateType = "XGate" -> XGate_create(parameters)
      [] GateType = "YGate" -> YGate_create(parameters)
      [] GateType = "ZGate" -> ZGate_create(parameters)
      [] GateType = "HadamardGate" -> HadamardGate_create(parameters)
      [] GateType = "SGate" -> SGate_create(parameters)
      [] GateType = "TGate" -> TGate_create(parameters)
      [] GateType = "RotationXGate" -> RotationXGate_create(parameters)
      [] GateType = "RotationYGate" -> RotationYGate_create(parameters)
      [] GateType = "RotationZGate" -> RotationZGate_create(parameters)
      [] GateType = "PhaseShiftGate" -> PhaseShiftGate_create(parameters)
      [] GateType = "GeneralRotationGate" -> GeneralRotationGate_create(parameters)
      [] GateType = "CNOTGate" -> CNOTGate_create(parameters)
      [] GateType = "SWAPGate" -> SWAPGate_create(parameters)
      [] GateType = "CZGate" -> CZGate_create(parameters)
      [] GateType = "CRotationXGate" -> CRotationXGate_create(parameters)
      [] GateType = "CRotationYGate" -> CRotationYGate_create(parameters)
      [] GateType = "CRotationZGate" -> CRotationZGate_create(parameters)
      [] GateType = "CGeneralRotationGate" -> CGeneralRotationGate_create(parameters)
      [] GateType = "ToffoliGate" -> ToffoliGate_create(parameters)
      [] GateType = "CSWAPGate" -> CSWAPGate_create(parameters)
      [] GateType = "ThreeQubitUnitary" -> ThreeQubitUnitary_create(parameters)

\* GateType::label
label(GateType) ==
    CASE GateType = "XGate" -> "PauliX"
      [] GateType = "YGate" -> "PauliY"
      [] GateType = "ZGate" -> "PauliZ"
      [] GateType = "HadamardGate" -> "Hadamard"
      [] GateType = "SGate" -> "S"
      [] GateType = "TGate" -> "T"
      [] GateType = "RotationXGate" -> "RX"
      [] GateType = "RotationYGate" -> "RY"
      [] GateType = "RotationZGate" -> "RZ"
      [] GateType = "PhaseShiftGate" -> "PhaseShift"
      [] GateType = "GeneralRotationGate" -> "Rot"
      [] GateType = "CNOTGate" -> "CNOT"
      [] GateType = "SWAPGate" -> "SWAP"
      [] GateType = "CZGate" -> "CZ"
      [] GateType = "CRotationXGate" -> "CRX"
      [] GateType = "CRotationYGate" -> "CRY"
      [] GateType = "CRotationZGate" -> "CRZ"
      [] GateType = "CGeneralRotationGate" -> "CRot"
      [] GateType = "ToffoliGate" -> "Toffoli"
      [] GateType = "CSWAPGate" -> "CSWAP"
      [] GateType = "ThreeQubitUnitary" -> "QubitUnitary"

\* std::map::emplace: a key that is present keeps its value.  The table maps
\* a label to the gate class whose create the stored closure calls.
addToDispatchTable(GateType, table) ==
    IF label(GateType) \in DOMAIN table THEN table
    ELSE [l \in DOMAIN table \cup {label(GateType)} |->
              IF l = label(GateType) THEN GateType ELSE table[l]]

\* the gate classes in the order createDispatchTable registers them
RegisteredGateTypes ==
    <<"XGate", "YGate", "ZGate", "HadamardGate", "SGate", "TGate",
      "RotationXGate", "RotationYGate", "RotationZGate", "PhaseShiftGate",
      "GeneralRotationGate", "CNOTGate", "SWAPGate", "CZGate",
      "CRotationXGate", "CRotationYGate", "CRotationZGate",
      "CGeneralRotationGate", "ToffoliGate", "CSWAPGate", "ThreeQubitUnitary">>

RECURSIVE registerLoop(_, _, _)
registerLoop(types, j, table) ==
    IF j > Len(types) THEN table
    ELSE registerLoop(types, j + 1, addToDispatchTable(types[j], table))

EmptyTable == [l \in {} |-> ""]

createDispatchTable == registerLoop(RegisteredGateTypes, 1, EmptyTable)

\* a slip: the label is folded to the catalogue's spelling before the lookup
Folded(opLabel) ==
    CASE opLabel \in {"paulix", "PAULIX", "Paulix"} -> "PauliX"
      [] opLabel = "cnot" -> "CNOT"
      [] opLabel = "rx" -> "RX"
      [] opLabel = "qubitunitary" -> "QubitUnitary"
      [] OTHER -> opLabel

constructGateIn_anyCase(table, opLabel, parameters) ==
    IF Folded(opLabel) \notin DOMAIN table THEN Throw("UnknownGate")
    ELSE create(table[Folded(opLabel)], parameters)

\* constructGate, reading the table `dispatchTable`
constructGateIn(table, opLabel, parameters) ==
    IF opLabel \notin DOMAIN table THEN Throw("UnknownGate")
    ELSE create(table[opLabel], parameters)

\* ------------------------------------------------------- kernels, Gates.cpp

\* shiftedState[x] for the 0-based offset x into the amplitude array
Get(arr, x) == arr[x + 1]

\* shiftedState[x] = v
Put(arr, x, v) == [arr EXCEPT ![x + 1] = v]

\* std::swap(shiftedState[x], shiftedState[y])
swap(arr, x, y) == [arr EXCEPT ![x + 1] = arr[y + 1], ![y + 1] = arr[x + 1]]

\* indices[k], 0-based as in the source
At(indices, k) == indices[k + 1]

\* The kernels of Gates.cpp are called with the flag `inverse` (Apply.cpp:74).
\* With the flag set a kernel applies the Hermitian conjugate of the gate's
\* matrix: phase factors are conjugated, rotation angles negated, and the
\* matrix kernel reads the conjugate of the transposed entry.
\* a slip: the flag is ignored
conjIfInverse_ignored(x, inverse) == x

conjIfInverse(x, inverse) == IF inverse THEN CConj(x) ELSE x

negIfInverse(x, inverse) == IF inverse THEN CNeg(x) ELSE x

matrixEntry(matrix, size, i, j, inverse) ==
    IF inverse THEN CConj(matrix[j * size + i + 1]) ELSE matrix[i * size + j + 1]

\* `for (const size_t& externalIndex : externalIndices)` around a kernel body
RECURSIVE forEachExternal(_, _, _, _)
forEachExternal(body(_, _), arr, externalIndices, j) ==
    IF j > Len(externalIndices) THEN arr
    ELSE forEachExternal(body, body(arr, externalIndices[j]), externalIndices, j + 1)

\* the inner loop `shiftedState[index] += matrix[baseIndex + j] * v[j]`
RECURSIVE rowLoop(_, _, _, _, _, _)
rowLoop(matrix, v, i, j, inverse, acc) ==
    IF j >= Len(v) THEN acc
    ELSE rowLoop(matrix, v, i, j + 1, inverse,
             CAdd(acc, CMul(matrixEntry(matrix, Len(v), i, j, inverse), v[j + 1])))

\* the loop "Apply + scatter"
RECURSIVE scatterLoop(_, _, _, _, _, _, _)
scatterLoop(arr, externalIndex, indices, matrix, v, i, inverse) ==
    IF i >= Len(indices) THEN arr
    ELSE scatterLoop(
             Put(arr, externalIndex + At(indices, i),
                 rowLoop(matrix, v, i, 0, inverse, ZERO)),
             externalIndex, indices, matrix, v, i + 1, inverse)

\* AbstractGate::applyKernel: gather, multiply, scatter
AbstractGate_applyKernel(gate, arr, indices, externalIndices, inverse) ==
    LET body(a, externalIndex) ==
            LET v == [pos \in 1..Len(indices) |->
                          Get(a, externalIndex + indices[pos])]
            IN  scatterLoop(a, externalIndex, indices, gate.matrix, v, 0, inverse)
    IN  forEachExternal(body, arr, externalIndices, 1)

\* a slip: the external offset is not added
XGate_applyKernel_noOffset(gate, arr, indices, externalIndices, inverse) ==
    LET body(a, e) == swap(a, At(indices, 0), At(indices, 1))
    IN  forEachExternal(body, arr, externalIndices, 1)

XGate_applyKernel(gate, arr, indices, externalIndices, inverse) ==
    LET body(a, e) == swap(a, e + At(indices, 0), e + At(indices, 1))
    IN  forEachExternal(body, arr, externalIndices, 1)

YGate_applyKernel(gate, arr, indices, externalIndices, inverse) ==
    LET body(a, e) ==
            LET v0 == Get(a, e + At(indices, 0))
                a1 == Put(a, e + At(indices, 0),
                          CMul(CNeg(IMAG), Get(a, e + At(indices, 1))))
            IN  Put(a1, e + At(indices, 1), CMul(IMAG, v0))
    IN  forEachExternal(body, arr, externalIndices, 1)

ZGate_applyKernel(gate, arr, indices, externalIndices, inverse) ==
    LET body(a, e) ==
            Put(a, e + At(indices, 1),
                CMul(Get(a, e + At(indices, 1)), Cplx(-1, 0)))
    IN  forEachExternal(body, arr, externalIndices, 1)

HadamardGate_applyKernel(gate, arr, indices, externalIndices, inverse) ==
    LET body(a, e) ==
            LET v0 == Get(a, e + At(indices, 0))
                v1 == Get(a, e + At(indices, 1))
                a1 == Put(a, e + At(indices, 0), CMul(SQRT2INV, CAdd(v0, v1)))
            IN  Put(a1, e + At(indices, 1), CMul(SQRT2INV, CSub(v0, v1)))
    IN  forEachExternal(body, arr, externalIndices, 1)

\* the kernels of S, T and PhaseShift: shiftedState[indices[1]] *= shift
phaseKernel(shift, arr, indices, externalIndices) ==
    LET body(a, e) ==
            Put(a, e + At(indices, 1), CMul(Get(a, e + At(indices, 1)), shift))
    IN  forEachExternal(body, arr, externalIndices, 1)

SGate_applyKernel(gate, arr, indices, externalIndices, inverse) ==
    phaseKernel(conjIfInverse(IMAG, inverse), arr, indices, externalIndices)

TGate_applyKernel(gate, arr, indices, externalIndices, inverse) ==
    phaseKernel(conjIfInverse(TGate_shift, inverse), arr, indices, externalIndices)

PhaseShiftGate_applyKernel(gate, arr, indices, externalIndices, inverse) ==
    phaseKernel(conjIfInverse(gate.m.shift, inverse), arr, indices, externalIndices)

\* the kernels of RZ (p = 0) and CRZ (p = 2):
\* shiftedState[indices[p]] *= first; shiftedState[indices[p + 1]] *= second
diagonalKernel(first, second, p, arr, indices, externalIndices) ==
    LET body(a, e) ==
            LET a1 == Put(a, e + At(indices, p),
                          CMul(Get(a, e + At(indices, p)), first))
            IN  Put(a1, e + At(indices, p + 1),
                    CMul(Get(a1, e + At(indices, p + 1)), second))
    IN  forEachExternal(body, arr, externalIndices, 1)

RotationZGate_applyKernel(gate, arr, indices, externalIndices, inverse) ==
    diagonalKernel(conjIfInverse(gate.m.first, inverse),
                   conjIfInverse(gate.m.second, inverse),
                   0, arr, indices, externalIndices)

\* a slip: the pair of SWAP
CNOTGate_applyKernel_pair12(gate, arr, indices, externalIndices, inverse) ==
    LET body(a, e) == swap(a, e + At(indices, 1), e + At(indices, 2))
    IN  forEachExternal(body, arr, externalIndices, 1)

CNOTGate_applyKernel(gate, arr, indices, externalIndices, inverse) ==
    LET body(a, e) == swap(a, e + At(indices, 2), e + At(indices, 3))
    IN  forEachExternal(body, arr, externalIndices, 1)

SWAPGate_applyKernel(gate, arr, indices, externalIndices, inverse) ==
    LET body(a, e) == swap(a, e + At(indices, 1), e + At(indices, 2))
    IN  forEachExternal(body, arr, externalIndices, 1)

\* a slip: the sign is put on indices[2]
CZGate_applyKernel_index2(gate, arr, indices, externalIndices, inverse) ==
    LET body(a, e) ==
            Put(a, e + At(indices, 2),
                CMul(Get(a, e + At(indices, 2)), Cplx(-1, 0)))
    IN  forEachExternal(body, arr, externalIndices, 1)

CZGate_applyKernel(gate, arr, indices, externalIndices, inverse) ==
    LET body(a, e) ==
            Put(a, e + At(indices, 3),
                CMul(Get(a, e + At(indices, 3)), Cplx(-1, 0)))
    IN  forEachExternal(body, arr, externalIndices, 1)

\* the kernels of CRX, CRY and CRot: with v0, v1 the amplitudes at
\* indices[2], indices[3], write m00*v0 + m01*v1 and m10*v0 + m11*v1
controlledKernel(m00, m01, m10, m11, arr, indices, externalIndices) ==
    LET body(a, e) ==
            LET v0 == Get(a, e + At(indices, 2))
                v1 == Get(a, e + At(indices, 3))
                a1 == Put(a, e + At(indices, 2),
                          CAdd(CMul(m00, v0), CMul(m01, v1)))
            IN  Put(a1, e + At(indices, 3), CAdd(CMul(m10, v0), CMul(m11, v1)))
    IN  forEachExternal(body, arr, externalIndices, 1)

CRotationXGate_applyKernel(gate, arr, indices, externalIndices, inverse) ==
    LET c == gate.m.c
        js == conjIfInverse(gate.m.js, inverse)
    IN  controlledKernel(c, js, js, c, arr, indices, externalIndices)

CRotationYGate_applyKernel(gate, arr, indices, externalIndices, inverse) ==
    LET c == gate.m.c
        s == negIfInverse(gate.m.s, inverse)
    IN  controlledKernel(c, CNeg(s), s, c, arr, indices, externalIndices)

CRotationZGate_applyKernel(gate, arr, indices, externalIndices, inverse) ==
    diagonalKernel(conjIfInverse(gate.m.first, inverse),
                   conjIfInverse(gate.m.second, inverse),
                   2, arr, indices, externalIndices)

CGeneralRotationGate_applyKernel(gate, arr, indices, externalIndices, inverse) ==
    controlledKernel(conjIfInverse(gate.m.r1, inverse),
                     negIfInverse(gate.m.r2, inverse),
                     negIfInverse(gate.m.r3, inverse),
                     conjIfInverse(gate.m.r4, inverse),
                     arr, indices, externalIndices)

\* a slip: the pair of CSWAP
ToffoliGate_applyKernel_pair56(gate, arr, indices, externalIndices, inverse) ==
    LET body(a, e) == swap(a, e + At(indices, 5), e + At(indices, 6))
    IN  forEachExternal(body, arr, externalIndices, 1)

ToffoliGate_applyKernel(gate, arr, indices, externalIndices, inverse) ==
    LET body(a, e) == swap(a, e + At(indices, 6), e + At(indices, 7))
    IN  forEachExternal(body, arr, externalIndices, 1)

CSWAPGate_applyKernel(gate, arr, indices, externalIndices, inverse) ==
    LET body(a, e) == swap(a, e + At(indices, 5), e + At(indices, 6))
    IN  forEachExternal(body, arr, externalIndices, 1)

\* gate->applyKernel: the override of the gate's class; RX, RY, Rot and
\* QubitUnitary have none and run AbstractGate::applyKernel
applyKernel(gate, arr, indices, externalIndices, inverse) ==
    CASE gate.label = "PauliX" -> XGate_applyKernel(gate, arr, indices, externalIndices, inverse)
      [] gate.label = "PauliY" -> YGate_applyKernel(gate, arr, indices, externalIndices, inverse)
      [] gate.label = "PauliZ" -> ZGate_applyKernel(gate, arr, indices, externalIndices, inverse)
      [] gate.label = "Hadamard" -> HadamardGate_applyKernel(gate, arr, indices, externalIndices, inverse)
      [] gate.label = "S" -> SGate_applyKernel(gate, arr, indices, externalIndices, inverse)
      [] gate.label = "T" -> TGate_applyKernel(gate, arr, indices, externalIndices, inverse)
      [] gate.label = "RZ" -> RotationZGate_applyKernel(gate, arr, indices, externalIndices, inverse)
      [] gate.label = "PhaseShift" -> PhaseShiftGate_applyKernel(gate, arr, indices, externalIndices, inverse)
      [] gate.label = "CNOT" -> CNOTGate_applyKernel(gate, arr, indices, externalIndices, inverse)
      [] gate.label = "SWAP" -> SWAPGate_applyKernel(gate, arr, indices, externalIndices, inverse)
      [] gate.label = "CZ" -> CZGate_applyKernel(gate, arr, indices, externalIndices, inverse)
      [] gate.label = "CRX" -> CRotationXGate_applyKernel(gate, arr, indices, externalIndices, inverse)
      [] gate.label = "CRY" -> CRotationYGate_applyKernel(gate, arr, indices, externalIndices, inverse)
      [] gate.label = "CRZ" -> CRotationZGate_applyKernel(gate, arr, indices, externalIndices, inverse)
      [] gate.label = "CRot" -> CGeneralRotationGate_applyKernel(gate, arr, indices, externalIndices, inverse)
      [] gate.label = "Toffoli" -> ToffoliGate_applyKernel(gate, arr, indices, externalIndices, inverse)
      [] gate.label = "CSWAP" -> CSWAPGate_applyKernel(gate, arr, indices, externalIndices, inverse)
      [] OTHER -> AbstractGate_applyKernel(gate, arr, indices, externalIndices, inverse)

\* ------------------------------------------------- apply driver, Apply.cpp

\* what constructAndApplyOperation leaves behind: the exception it threw
\* ("none" when it returned), the amplitudes, and whether it got as far as
\* building the index sets and running the kernel
Outcome(thrown, arr, indexed, kernel) ==
    [thrown |-> thrown, arr |-> arr, indexed |-> indexed, kernel |-> kernel]

\* a slip: the index sets are built before the wire count is compared
constructAndApplyOperation_indexFirst(table, arr, opLabel, opWires, opParams, inverse, qubits) ==
    LET gate == constructGateIn(table, opLabel, opParams)
    IN  IF Thrown(gate) THEN Outcome(gate.thrown, arr, FALSE, FALSE)
        ELSE IF gate.numQubits # Len(opWires)
             THEN Outcome("ArityMismatch", arr, TRUE, FALSE)
             ELSE LET internal == generateBitPatterns(opWires, qubits)
                      extWires == getIndicesAfterExclusion(opWires, qubits)
                      external == generateBitPatterns(extWires, qubits)
                  IN  Outcome("none",
                              applyKernel(gate, arr, internal, external, inverse),
                              TRUE, TRUE)

constructAndApplyOperation(table, arr, opLabel, opWires, opParams, inverse, qubits) ==
    LET gate == constructGateIn(table, opLabel, opParams)
    IN  IF Thrown(gate) THEN Outcome(gate.thrown, arr, FALSE, FALSE)
        ELSE IF gate.numQubits # Len(opWires)
             THEN Outcome("ArityMismatch", arr, FALSE, FALSE)
             ELSE LET internal == generateBitPatterns(opWires, qubits)
                      extWires == getIndicesAfterExclusion(opWires, qubits)
                      external == generateBitPatterns(extWires, qubits)
                  IN  Outcome("none",
                              applyKernel(gate, arr, internal, external, inverse),
                              TRUE, TRUE)

\* a slip: `<` in place of `!=`, so a state that is too long is accepted
applyValidate_lengthLess(qubits, stateLength, numOperations, numWires, numParams) ==
    IF qubits <= 0 THEN "DimensionMismatch"
    ELSE IF stateLength < exp2(qubits) THEN "DimensionMismatch"
    ELSE IF numOperations # numWires \/ numOperations # numParams
         THEN "ShapeMismatch"
    ELSE "none"

\* the three checks at the head of apply: the exception thrown, or "none"
applyValidate(qubits, stateLength, numOperations, numWires, numParams) ==
    IF qubits <= 0 THEN "DimensionMismatch"
    ELSE IF stateLength # exp2(qubits) THEN "DimensionMismatch"
    ELSE IF numOperations # numWires \/ numOperations # numParams
         THEN "ShapeMismatch"
    ELSE "none"

\* ---------------------------------------------- adjoint method, Apply.cpp

\* The generators, their scaling factors and inner_product are declared in
\* headers that Apply.cpp includes; they are taken from the description of
\* the generators (RX: PauliX, RY: PauliY, RZ: PauliZ, each with s = 1/2;
\* PhaseShift: (I - Z)/2 with s = 1; controlled rotations: the generator on
\* the control-1 subspace, zero on the control-0 subspace, s = 1/2).
HALF == <<1, 0, 0, 0, 1>>

generatorMatrix(gateLabel) ==
    CASE gateLabel = "RX" -> <<ZERO, ONE, ONE, ZERO>>
      [] gateLabel = "RY" -> <<ZERO, CNeg(IMAG), IMAG, ZERO>>
      [] gateLabel = "RZ" -> <<ONE, ZERO, ZERO, CNeg(ONE)>>
      [] gateLabel = "PhaseShift" -> <<ZERO, ZERO, ZERO, ONE>>
      [] gateLabel = "CRX" ->
             <<ZERO, ZERO, ZERO, ZERO, ZERO, ZERO, ZERO, ZERO,
               ZERO, ZERO, ZERO, ONE, ZERO, ZERO, ONE, ZERO>>
      [] gateLabel = "CRY" ->
             <<ZERO, ZERO, ZERO, ZERO, ZERO, ZERO, ZERO, ZERO,
               ZERO, ZERO, ZERO, CNeg(IMAG), ZERO, ZERO, IMAG, ZERO>>
      [] gateLabel = "CRZ" ->
             <<ZERO, ZERO, ZERO, ZERO, ZERO, ZERO, ZERO, ZERO,
               ZERO, ZERO, ONE, ZERO, ZERO, ZERO, ZERO, CNeg(ONE)>>

\* GateType::generatorScalingFactor
generatorScalingFactor(GateType) ==
    IF GateType = "PhaseShiftGate" THEN ONE ELSE HALF

\* gate->applyGenerator(state, internalIndices, externalIndices)
applyGenerator(gate, arr, indices, externalIndices) ==
    AbstractGate_applyKernel([matrix |-> generatorMatrix(gate.label)], arr,
                             indices, externalIndices, FALSE)

\* Apply.cpp:77-89
applyGateGenerator(arr, gate, opWires, qubits) ==
    LET internal == generateBitPatterns(opWires, qubits)
        extWires == getIndicesAfterExclusion(opWires, qubits)
        external == generateBitPatterns(extWires, qubits)
    IN  applyGenerator(gate, arr, internal, external)

\* inner_product(a, b): the sum of conj(a[x]) * b[x]
RECURSIVE innerLoop(_, _, _, _)
innerLoop(a, b, x, sum) ==
    IF x > Len(a) THEN sum
    ELSE innerLoop(a, b, x + 1, CAdd(sum, CMul(CConj(a[x]), b[x])))

inner_product(a, b) == innerLoop(a, b, 1, ZERO)

\* std::imag, as a (real) element of the ring: (x - conj(x)) / 2i
Imag(x) == CMul(CMul(CNeg(IMAG), CSub(x, CConj(x))), HALF)

\* Apply.cpp:199: -2 * scalingFactor * std::imag(sum)
jacobianEntry(scalingFactor, sum) ==
    CMul(CMul(Cplx(-2, 0), scalingFactor), Imag(sum))

\* ------------------------------------------------------------------ state

VARIABLES
    \* Gates.cpp:618, the process-wide table
    dispatchTable,
    \* a call of apply (Apply.cpp:91)
    state,              \* state.arr, state.length = Len(state)
    qubits,
    ops,
    wires,
    params,
    inverse,
    pc,                 \* "idle", "entry", "loop", "returned", "thrown", "crashed"
    i,                  \* the loop variable of Apply.cpp:110
    err,                \* the exception apply ended with, "none" otherwise
    state0,             \* the amplitudes handed to apply
    applied,            \* the loop positions whose kernel has run, in time order
    invRead,            \* the flag inverse[i] each of them was run with
    constructed,        \* the number of calls of constructGate
    indexed,            \* the loop positions whose index sets have been built
    \* a call of constructGate (Gates.cpp:620)
    cgLabel,
    cgParameters,
    cgResult,
    cgPc,               \* "idle", "start", "done"
    \* the index generator, called as constructAndApplyOperation calls it
    ixWires,            \* opWires: the wire list handed in
    ixQubits,           \* qubits
    ixPc,               \* "idle", "start", "excluded", "generated", "done"
    internalIndices,    \* generateBitPatterns(opWires, qubits)
    externalWires,      \* getIndicesAfterExclusion(opWires, qubits)
    externalIndices,    \* generateBitPatterns(externalWires, qubits)
    utilInternal,       \* IndicesUtil::generateBitPatterns(opWires, qubits)
    utilExternalWires,  \* IndicesUtil::getIndicesAfterExclusion(opWires, qubits)
    utilExternal,       \* IndicesUtil::generateBitPatterns(utilExternalWires, qubits)
    \* one gate applied through constructAndApplyOperation, forward and back
    kgLabel,
    kgWires,
    kgParams,
    kgQubits,
    kgState0,           \* the amplitudes before the first call
    kgMid,              \* the amplitudes after the call with inverse = false
    kgState,            \* the amplitudes now
    kgGeneric,          \* the amplitudes AbstractGate::applyKernel yields
    kgPending,          \* the external offsets no worker has processed yet
    kgPar,              \* the amplitudes the workers share
    kgErr,              \* the exception of the first call, "none" otherwise
    kgPc,               \* "idle", "start", "forward", "inverted", "done"
    \* a call of adjointJacobian (Apply.cpp:116)
    phi,                \* the caller's state vector
    phi0,               \* its amplitudes at the call
    jac,                \* the entries of the caller's buffer written so far
    observables,
    obsParams,
    obsWires,
    operations,
    opParams,
    opWires,
    trainableParams,
    paramNumber,
    paramNumber0,       \* paramNumber as passed in
    num_qubits,
    trainableParamNumber,
    lambdaState,        \* lambdaState.arr
    lambdas,            \* the arrays of the vector `lambdas`
    ajI,                \* the loop variable of the backward sweep
    jacWrites,          \* one record per write to jac, in time order
    dispatched,         \* the labels handed to constructGate, in time order
    allocated,          \* the buffers obtained with new[], in time order
    freed,              \* the buffers released with delete[], in time order
    ajErr,              \* the exception the call ended with, "none" otherwise
    ajPc,               \* "idle", "entry", "seed", "sweep", "returned", "thrown"
    \* a call of StateVectorBase::applyOperations (StateVectorBase.hpp:200, 222)
    svOverload,         \* 4: with params, 3: without
    svOps,
    svWires,
    svInverse,
    svParams,
    svArr,              \* the amplitudes getData() points to
    svArr0,             \* the amplitudes at the call
    svNumQubits,
    svI,                \* the loop variable
    svApplied,          \* the loop positions applyOperation was called for
    svErr,
    svPc,               \* "idle", "entry", "loop", "returned", "thrown", "fault"
    \* a call of StateVectorBase::applyMatrix (StateVectorBase.hpp:279, 305, 329)
    mxOverload,         \* "kernel", "pointer" or "vector": the overload called
    mxKernel,           \* the kernel passed in or selected
    mxMatrix,           \* the elements of the matrix passed in
    mxWires,
    mxInverse,
    mxArr,              \* the amplitudes getData() points to
    mxArr0,             \* the amplitudes at the call
    mxNumQubits,
    mxKernelCalls,      \* the calls of dispatcher.applyMatrix, in time order
    mxErr,
    mxPc                \* "idle", "vector", "pointer", "kernel", "returned", "thrown"

applyVars == <<state, qubits, ops, wires, params, inverse, pc, i, err, state0,
               applied, invRead, constructed, indexed>>

cgVars == <<cgLabel, cgParameters, cgResult, cgPc>>

ixVars == <<ixWires, ixQubits, ixPc, internalIndices, externalWires,
            externalIndices, utilInternal, utilExternalWires, utilExternal>>

kgVars == <<kgLabel, kgWires, kgParams, kgQubits, kgState0, kgMid, kgState,
            kgGeneric, kgPending, kgPar, kgErr, kgPc>>

\* the variables of the calls modelled beside apply, constructGate and the
\* index generator
ajVars == <<phi, phi0, jac, observables, obsParams, obsWires, operations,
            opParams, opWires, trainableParams, paramNumber, paramNumber0,
            num_qubits, trainableParamNumber, lambdaState, lambdas, ajI,
            jacWrites, dispatched, allocated, freed, ajErr, ajPc>>

svVars == <<svOverload, svOps, svWires, svInverse, svParams, svArr, svArr0,
            svNumQubits, svI, svApplied, svErr, svPc>>

mxVars == <<mxOverload, mxKernel, mxMatrix, mxWires, mxInverse, mxArr, mxArr0,
            mxNumQubits, mxKernelCalls, mxErr, mxPc>>

extVars == <<kgVars, ajVars, svVars, mxVars>>

vars == <<dispatchTable, applyVars, cgVars, ixVars, extVars>>

\* no call of apply in progress
ApplyIdle ==
    /\ state = <<>> /\ qubits = 0 /\ ops = <<>> /\ wires = <<>>
    /\ params = <<>> /\ inverse = <<>> /\ pc = "idle" /\ i = 0
    /\ err = "none" /\ state0 = <<>> /\ applied = <<>> /\ invRead = <<>>
    /\ constructed = 0 /\ indexed = <<>>

\* no call of constructGate in progress
CgIdle ==
    /\ cgLabel = "" /\ cgParameters = <<>> /\ cgResult = <<>> /\ cgPc = "idle"

\* no call of the index generator in progress
IxIdle ==
    /\ ixWires = <<>> /\ ixQubits = 0 /\ ixPc = "idle"
    /\ internalIndices = <<>> /\ externalWires = <<>> /\ externalIndices = <<>>
    /\ utilInternal = <<>> /\ utilExternalWires = <<>> /\ utilExternal = <<>>

\* no single-gate call in progress
KgIdle ==
    /\ kgLabel = "" /\ kgWires = <<>> /\ kgParams = <<>> /\ kgQubits = 0
    /\ kgState0 = <<>> /\ kgMid = <<>> /\ kgState = <<>> /\ kgGeneric = <<>>
    /\ kgPending = {} /\ kgPar = <<>>
    /\ kgErr = "none" /\ kgPc = "idle"

\* no call of adjointJacobian in progress
AjIdle ==
    /\ phi = <<>> /\ phi0 = <<>> /\ jac = <<>> /\ observables = <<>>
    /\ obsParams = <<>> /\ obsWires = <<>> /\ operations = <<>>
    /\ opParams = <<>> /\ opWires = <<>> /\ trainableParams = <<>>
    /\ paramNumber = 0 /\ paramNumber0 = 0 /\ num_qubits = 0
    /\ trainableParamNumber = 0 /\ lambdaState = <<>> /\ lambdas = <<>>
    /\ ajI = 0 /\ jacWrites = <<>> /\ dispatched = <<>> /\ allocated = <<>>
    /\ freed = <<>> /\ ajErr = "none" /\ ajPc = "idle"

\* no call of applyOperations in progress
SvIdle ==
    /\ svOverload = 0 /\ svOps = <<>> /\ svWires = <<>> /\ svInverse = <<>>
    /\ svParams = <<>> /\ svArr = <<>> /\ svArr0 = <<>> /\ svNumQubits = 0
    /\ svI = 0 /\ svApplied = <<>> /\ svErr = "none" /\ svPc = "idle"

\* no call of applyMatrix in progress
MxIdle ==
    /\ mxOverload = "none" /\ mxKernel = "none" /\ mxMatrix = <<>>
    /\ mxWires = <<>>
    /\ mxInverse = FALSE /\ mxArr = <<>> /\ mxArr0 = <<>> /\ mxNumQubits = 0
    /\ mxKernelCalls = <<>> /\ mxErr = "none" /\ mxPc = "idle"

ExtIdle == KgIdle /\ AjIdle /\ SvIdle /\ MxIdle

\* ----------------------------------------- specification: index generator

WiresInRange == \A j \in 1..Len(ixWires) : ixWires[j] < ixQubits

IxInit ==
    /\ dispatchTable = createDispatchTable
    /\ ExtIdle
    /\ ApplyIdle
    /\ CgIdle
    /\ ixQubits \in 0..MaxQubits
    /\ ixWires \in SeqsUpTo(0..MaxQubits, MaxWires)
    /\ ixPc = "start"
    /\ internalIndices = <<>>
    /\ externalWires = <<>>
    /\ externalIndices = <<>>
    /\ utilInternal = <<>>
    /\ utilExternalWires = <<>>
    /\ utilExternal = <<>>

\* Apply.cpp:71 and SimulatorUtil.cpp:8, on any wire list
GetIndicesAfterExclusion ==
    /\ ixPc = "start"
    /\ externalWires' = getIndicesAfterExclusion(ixWires, ixQubits)
    /\ utilExternalWires' = IndicesUtil_getIndicesAfterExclusion(ixWires, ixQubits)
    /\ ixPc' = "excluded"
    /\ UNCHANGED <<ixWires, ixQubits, internalIndices, externalIndices,
                   utilInternal, utilExternal>>
    /\ UNCHANGED <<dispatchTable, applyVars, cgVars, extVars>>

\* Apply.cpp:69 and :72, on wires of the register
GenerateBitPatterns ==
    /\ ixPc = "excluded"
    /\ WiresInRange
    /\ internalIndices' = generateBitPatterns(ixWires, ixQubits)
    /\ externalIndices' = generateBitPatterns(externalWires, ixQubits)
    /\ ixPc' = "generated"
    /\ UNCHANGED <<ixWires, ixQubits, externalWires, utilInternal,
                   utilExternalWires, utilExternal>>
    /\ UNCHANGED <<dispatchTable, applyVars, cgVars, extVars>>

\* SimulatorUtil.cpp:20, on the same input
UtilGenerateBitPatterns ==
    /\ ixPc = "generated"
    /\ utilInternal' = IndicesUtil_generateBitPatterns(ixWires, ixQubits)
    /\ utilExternal' = IndicesUtil_generateBitPatterns(utilExternalWires, ixQubits)
    /\ ixPc' = "done"
    /\ UNCHANGED <<ixWires, ixQubits, internalIndices, externalWires,
                   externalIndices, utilExternalWires>>
    /\ UNCHANGED <<dispatchTable, applyVars, cgVars, extVars>>

IxNext ==
    \/ GetIndicesAfterExclusion
    \/ GenerateBitPatterns
    \/ UtilGenerateBitPatterns

SpecIdx == IxInit /\ [][IxNext]_vars

\* ------------------------------------------ specification: the apply driver

MaxOps == 2

\* the operations a caller passes: label, wires, parameters (angles count
\* multiples of pi/2), inverse flag
Op(l, w, p, inv) == [op |-> l, wires |-> w, params |-> p, inverse |-> inv]

OpPool ==
    { Op("PauliX", <<0>>, <<>>, FALSE),
      Op("S", <<0>>, <<>>, TRUE),
      Op("RX", <<0>>, <<1>>, FALSE),
      Op("CNOT", <<0, 1>>, <<>>, FALSE),
      Op("Toffoli", <<0, 2, 1>>, <<>>, FALSE),
      Op("Frobnicate", <<0>>, <<>>, FALSE),
      Op("RX", <<0>>, <<>>, FALSE),
      Op("CNOT", <<0>>, <<>>, FALSE),
      Op("QubitUnitary", <<0>>, <<0, 0, 1, 0, 1, 0, 0, 0>>, FALSE),
      Op("RX", <<0, 1>>, <<>>, FALSE),
      Op("QubitUnitary", <<0>>, <<1, 0, 0, 1>>, FALSE) }

\* the amplitudes of the caller's array: pairwise distinct, so that every
\* permutation and every phase shows
InputState(len) == [x \in 1..len |-> Cplx(x, len + 1 - x)]

StateLengths(n) == {exp2(n) \div 2, exp2(n), 2 * exp2(n)}

\* the array without its last element, when it is the one named
Cut(arr, which, name) ==
    IF which = name /\ Len(arr) > 0 THEN SubSeq(arr, 1, Len(arr) - 1) ELSE arr

ApplyInit ==
    /\ dispatchTable = createDispatchTable
    /\ ExtIdle
    /\ CgIdle
    /\ IxIdle
    /\ \E n \in 0..MaxQubits, d \in SeqsUpTo(OpPool, MaxOps),
          short \in {"none", "ops", "wires", "params", "inverse"} :
         \E len \in StateLengths(n) :
            \* wires outside the register make maxDecimalForQubit undefined
            /\ (n >= 1 /\ len = exp2(n)) =>
                   \A k \in 1..Len(d) : \A w \in Range(d[k].wires) : w < n
            /\ qubits = n
            /\ state = InputState(len)
            /\ state0 = InputState(len)
            /\ ops = Cut([k \in 1..Len(d) |-> d[k].op], short, "ops")
            /\ wires = Cut([k \in 1..Len(d) |-> d[k].wires], short, "wires")
            /\ params = Cut([k \in 1..Len(d) |-> d[k].params], short, "params")
            /\ inverse = Cut([k \in 1..Len(d) |-> d[k].inverse], short, "inverse")
    /\ pc = "entry"
    /\ i = 0
    /\ err = "none"
    /\ applied = <<>>
    /\ invRead = <<>>
    /\ constructed = 0
    /\ indexed = <<>>

Validation == applyValidate(qubits, Len(state), Len(ops), Len(wires), Len(params))

\* Apply.cpp:99-108: one of the three checks throws
ApplyThrows ==
    /\ pc = "entry"
    /\ Validation # "none"
    /\ err' = Validation
    /\ pc' = "thrown"
    /\ UNCHANGED <<state, qubits, ops, wires, params, inverse, i, state0,
                   applied, invRead, constructed, indexed>>
    /\ UNCHANGED <<dispatchTable, cgVars, ixVars, extVars>>

\* Apply.cpp:99-110: the checks pass, the loop starts with i = 0
ApplyEnterLoop ==
    /\ pc = "entry"
    /\ Validation = "none"
    /\ pc' = "loop"
    /\ i' = 0
    /\ UNCHANGED <<state, qubits, ops, wires, params, inverse, err, state0,
                   applied, invRead, constructed, indexed>>
    /\ UNCHANGED <<dispatchTable, cgVars, ixVars, extVars>>

\* the values the read of inverse[i] can yield: the element, or either value
\* for a read past the end of the vector<bool>
InverseAt(k) == IF k < Len(inverse) THEN {inverse[k + 1]} ELSE BOOLEAN

\* the call of Apply.cpp:111 for the loop position i
StepOutcome(inv) ==
    constructAndApplyOperation(dispatchTable, state, ops[i + 1], wires[i + 1],
                               params[i + 1], inv, qubits)

\* a slip: the loop walks the list from its end
ApplyOperation_reversed ==
    /\ pc = "loop"
    /\ i < Len(ops)
    /\ LET k == Len(ops) - 1 - i
       IN  \E inv \in InverseAt(k) :
              LET r == constructAndApplyOperation(dispatchTable, state,
                           ops[k + 1], wires[k + 1], params[k + 1], inv, qubits)
              IN  /\ r.thrown = "none"
                  /\ state' = r.arr
                  /\ applied' = Append(applied, k)
                  /\ invRead' = Append(invRead, inv)
                  /\ indexed' = IF r.indexed THEN Append(indexed, k) ELSE indexed
    /\ constructed' = constructed + 1
    /\ i' = i + 1
    /\ UNCHANGED <<qubits, ops, wires, params, inverse, pc, err, state0>>
    /\ UNCHANGED <<dispatchTable, cgVars, ixVars, extVars>>

\* Apply.cpp:110-112: operation i is constructed and applied
ApplyOperation ==
    /\ pc = "loop"
    /\ i < Len(ops)
    /\ \E inv \in InverseAt(i) :
          LET r == StepOutcome(inv)
          IN  /\ r.thrown = "none"
              /\ state' = r.arr
              /\ applied' = Append(applied, i)
              /\ invRead' = Append(invRead, inv)
              /\ indexed' = IF r.indexed THEN Append(indexed, i) ELSE indexed
    /\ constructed' = constructed + 1
    /\ i' = i + 1
    /\ UNCHANGED <<qubits, ops, wires, params, inverse, pc, err, state0>>
    /\ UNCHANGED <<dispatchTable, cgVars, ixVars, extVars>>

\* a slip: the exception of an operation is swallowed and the loop goes on
ApplyOperationThrows_goOn ==
    /\ pc = "loop"
    /\ i < Len(ops)
    /\ \E inv \in InverseAt(i) :
          LET r == StepOutcome(inv)
          IN  /\ r.thrown # "none"
              /\ err' = r.thrown
              /\ state' = r.arr
              /\ indexed' = IF r.indexed THEN Append(indexed, i) ELSE indexed
    /\ constructed' = constructed + 1
    /\ i' = i + 1
    /\ UNCHANGED <<qubits, ops, wires, params, inverse, pc, state0, applied,
                   invRead>>
    /\ UNCHANGED <<dispatchTable, cgVars, ixVars, extVars>>

\* Apply.cpp:111: constructAndApplyOperation throws, apply is left
ApplyOperationThrows ==
    /\ pc = "loop"
    /\ i < Len(ops)
    /\ \E inv \in InverseAt(i) :
          LET r == StepOutcome(inv)
          IN  /\ r.thrown # "none"
              /\ err' = r.thrown
              /\ state' = r.arr
              /\ indexed' = IF r.indexed THEN Append(indexed, i) ELSE indexed
    /\ constructed' = constructed + 1
    /\ pc' = "thrown"
    /\ UNCHANGED <<qubits, ops, wires, params, inverse, i, state0, applied,
                   invRead>>
    /\ UNCHANGED <<dispatchTable, cgVars, ixVars, extVars>>

\* Apply.cpp:111: the read of inverse[i] past the end of the vector faults
ApplyReadFaults ==
    /\ pc = "loop"
    /\ i < Len(ops)
    /\ i >= Len(inverse)
    /\ pc' = "crashed"
    /\ UNCHANGED <<state, qubits, ops, wires, params, inverse, i, err, state0,
                   applied, invRead, constructed, indexed>>
    /\ UNCHANGED <<dispatchTable, cgVars, ixVars, extVars>>

\* Apply.cpp:110-114: the loop is over, apply returns
ApplyReturns ==
    /\ pc = "loop"
    /\ i >= Len(ops)
    /\ pc' = "returned"
    /\ UNCHANGED <<state, qubits, ops, wires, params, inverse, i, err, state0,
                   applied, invRead, constructed, indexed>>
    /\ UNCHANGED <<dispatchTable, cgVars, ixVars, extVars>>

ApplyNext ==
    \/ ApplyThrows
    \/ ApplyEnterLoop
    \/ ApplyOperation
    \/ ApplyOperationThrows
    \/ ApplyReadFaults
    \/ ApplyReturns

\* ------------------------------------------- specification: constructGate

MaxParams == 3

\* the 21 labels of the catalogue and labels that are not in it
LabelPool ==
    Range([k \in 1..Len(RegisteredGateTypes) |-> label(RegisteredGateTypes[k])])
    \cup {"Frobnicate", "paulix", "PAULIX", "Paulix", "cnot", "rx",
          "qubitunitary", "", "QubitStateVector", "BasisState", "Identity"}

CgInit ==
    /\ dispatchTable = createDispatchTable
    /\ ExtIdle
    /\ ApplyIdle
    /\ IxIdle
    /\ cgLabel \in LabelPool
    /\ cgParameters \in SeqsUpTo({0, 1}, MaxParams)
    \* ThreeQubitUnitary::create reads past an odd-length parameter list
    /\ cgLabel = "QubitUnitary" => Len(cgParameters) % 2 = 0
    /\ cgResult = <<>>
    /\ cgPc = "start"

\* Gates.cpp:620-626
ConstructGate ==
    /\ cgPc = "start"
    /\ cgResult' = constructGateIn(dispatchTable, cgLabel, cgParameters)
    /\ cgPc' = "done"
    /\ UNCHANGED <<cgLabel, cgParameters>>
    /\ UNCHANGED <<dispatchTable, applyVars, ixVars, extVars>>

Init == ApplyInit \/ CgInit

Next == ApplyNext \/ ConstructGate

Spec == Init /\ [][Next]_vars

\* ------------------------------- specification: one gate, forward and back

\* rotation angles handed in, counted in multiples of pi/2
AnglePool == {1, 2}

RotAnglePool == {<<1, 1, 2>>, <<3, 1, 0>>}

\* the parameter lists a caller passes for the gate named: the documented
\* count for each gate, and the 8 reals of the matrix [[0,1],[1,0]] for
\* QubitUnitary
GateParams(l) ==
    CASE l \in {"RX", "RY", "RZ", "PhaseShift", "CRX", "CRY", "CRZ"} ->
             {<<a>> : a \in AnglePool}
      [] l \in {"Rot", "CRot"} -> RotAnglePool
      [] l = "QubitUnitary" -> {<<0, 0, 1, 0, 1, 0, 0, 0>>}
      [] OTHER -> {<<>>}

\* the number of wires a caller passes for the gate named
GateWires(l) ==
    CASE l \in {"CNOT", "SWAP", "CZ", "CRX", "CRY", "CRZ", "CRot"} -> 2
      [] l \in {"Toffoli", "CSWAP"} -> 3
      [] OTHER -> 1

\* the duplicate-free lists of k wires of an n-qubit register
WireLists(k, n) == {w \in [1..k -> 0..(n - 1)] : NoDup(w)}

\* the computational basis state e_x of length len
BasisVector(x, len) == [y \in 1..len |-> IF y = x + 1 THEN ONE ELSE ZERO]

\* the caller's amplitudes: the array of pairwise distinct amplitudes and
\* every basis state
KgStates(n) ==
    {InputState(exp2(n))} \cup {BasisVector(x, exp2(n)) : x \in 0..(exp2(n) - 1)}

\* the elements of externalIndices (Apply.cpp:71-72)
ExternalOffsets(w, n) ==
    Range(generateBitPatterns(getIndicesAfterExclusion(w, n), n))

KgInit ==
    /\ dispatchTable = createDispatchTable
    /\ AjIdle
    /\ SvIdle
    /\ MxIdle
    /\ ApplyIdle
    /\ CgIdle
    /\ IxIdle
    /\ kgLabel \in DOMAIN createDispatchTable
    /\ kgQubits \in 1..MaxQubits
    /\ GateWires(kgLabel) <= kgQubits
    /\ kgWires \in WireLists(GateWires(kgLabel), kgQubits)
    /\ kgParams \in GateParams(kgLabel)
    /\ kgState0 \in KgStates(kgQubits)
    /\ kgMid = <<>>
    /\ kgState = kgState0
    /\ kgGeneric = <<>>
    /\ kgPending = ExternalOffsets(kgWires, kgQubits)
    /\ kgPar = kgState0
    /\ kgErr = "none"
    /\ kgPc = "start"

\* constructAndApplyOperation(state, label, wires, params, false, qubits)
ApplyForward ==
    /\ kgPc = "start"
    /\ LET r == constructAndApplyOperation(dispatchTable, kgState, kgLabel,
                    kgWires, kgParams, FALSE, kgQubits)
       IN  /\ kgState' = r.arr
           /\ kgMid' = r.arr
           /\ kgErr' = r.thrown
    /\ kgPc' = "forward"
    /\ UNCHANGED <<kgLabel, kgWires, kgParams, kgQubits, kgState0, kgGeneric,
                   kgPending, kgPar>>
    /\ UNCHANGED <<dispatchTable, applyVars, cgVars, ixVars, ajVars, svVars,
                   mxVars>>

\* constructAndApplyOperation(state, label, wires, params, true, qubits)
ApplyInverse ==
    /\ kgPc = "forward"
    /\ kgState' = constructAndApplyOperation(dispatchTable, kgState, kgLabel,
                      kgWires, kgParams, TRUE, kgQubits).arr
    /\ kgPc' = "inverted"
    /\ UNCHANGED <<kgLabel, kgWires, kgParams, kgQubits, kgState0, kgMid,
                   kgGeneric, kgPending, kgPar, kgErr>>
    /\ UNCHANGED <<dispatchTable, applyVars, cgVars, ixVars, ajVars, svVars,
                   mxVars>>

\* AbstractGate::applyKernel with the gate's matrix, on the caller's
\* amplitudes and the index sets of Apply.cpp:69-72
ApplyMatrixKernel ==
    /\ kgPc = "inverted"
    /\ LET gate == constructGateIn(dispatchTable, kgLabel, kgParams)
       IN  kgGeneric' =
               IF Thrown(gate) THEN kgState0
               ELSE IF gate.numQubits # Len(kgWires) THEN kgState0
               ELSE LET internal == generateBitPatterns(kgWires, kgQubits)
                        extWires == getIndicesAfterExclusion(kgWires, kgQubits)
                        external == generateBitPatterns(extWires, kgQubits)
                    IN  AbstractGate_applyKernel(gate, kgState0, internal,
                                                 external, FALSE)
    /\ kgPc' = "done"
    /\ UNCHANGED <<kgLabel, kgWires, kgParams, kgQubits, kgState0, kgMid,
                   kgState, kgPending, kgPar, kgErr>>
    /\ UNCHANGED <<dispatchTable, applyVars, cgVars, ixVars, ajVars, svVars,
                   mxVars>>

KgNext ==
    \/ ApplyForward
    \/ ApplyInverse
    \/ ApplyMatrixKernel

SpecGate == KgInit /\ [][KgNext]_vars

\* ------------------------- specification: the blocks of a kernel, any order

\* the loop over externalIndices (Gates.cpp:51) shared out between workers:
\* beside the sequential call, the blocks of an array of pairwise distinct
\* amplitudes are processed one at a time in an order the scheduler chooses
KbInit ==
    /\ KgInit
    /\ kgState0 = InputState(exp2(kgQubits))

\* one pass of the body of the loop over externalIndices, for the offset e
ProcessBlock ==
    /\ kgPc = "forward"
    /\ kgErr = "none"
    /\ \E e \in kgPending :
       \E gate \in {constructGateIn(dispatchTable, kgLabel, kgParams)} :
       \E r \in {applyKernel(gate, kgPar,
                       generateBitPatterns(kgWires, kgQubits), <<e>>, FALSE)} :
          /\ kgPar' = r
          /\ kgPending' = kgPending \ {e}
    /\ UNCHANGED <<kgLabel, kgWires, kgParams, kgQubits, kgState0, kgMid,
                   kgState, kgGeneric, kgErr, kgPc>>
    /\ UNCHANGED <<dispatchTable, applyVars, cgVars, ixVars, ajVars, svVars,
                   mxVars>>

KbNext ==
    \/ ApplyForward
    \/ ProcessBlock

SpecBlocks == KbInit /\ [][KbNext]_vars

\* ---------------------------------------- specification: adjointJacobian

MaxAdjOps == 2

\* the operations of the circuit a caller passes: single-parameter rotations
\* on the two wires, an unparameterised gate, a three-parameter gate and the
\* two state-preparation labels
AdjOpPool ==
    { Op("RX", <<0>>, <<1>>, FALSE),
      Op("RY", <<1>>, <<2>>, FALSE),
      Op("PhaseShift", <<0>>, <<1>>, FALSE),
      Op("PauliX", <<1>>, <<>>, FALSE),
      Op("Rot", <<0>>, <<1, 1, 2>>, FALSE),
      Op("QubitStateVector", <<0, 1>>, <<1, 0>>, FALSE),
      Op("BasisState", <<0, 1>>, <<1>>, FALSE) }

ObservablePool ==
    { <<>>,
      <<Op("PauliZ", <<0>>, <<>>, FALSE)>>,
      <<Op("PauliX", <<0>>, <<>>, FALSE)>>,
      <<Op("PauliZ", <<0>>, <<>>, FALSE), Op("PauliX", <<1>>, <<>>, FALSE)>> }

TrainablePool == {<<>>, <<0>>, <<1>>, <<0, 1>>, <<1, 0>>, <<0, 0>>}

\* the number of parameters of the circuit
RECURSIVE CountParams(_, _)
CountParams(d, k) ==
    IF k > Len(d) THEN 0 ELSE Len(d[k].params) + CountParams(d, k + 1)

AjInit ==
    /\ dispatchTable = createDispatchTable
    /\ ApplyIdle
    /\ CgIdle
    /\ IxIdle
    /\ KgIdle
    /\ SvIdle
    /\ MxIdle
    /\ \E n \in 1..MaxQubits, d \in SeqsUpTo(AdjOpPool, MaxAdjOps),
          o \in ObservablePool :
          /\ phi = InputState(exp2(n))
          /\ phi0 = InputState(exp2(n))
          /\ operations = [k \in 1..Len(d) |-> d[k].op]
          /\ opWires = [k \in 1..Len(d) |-> d[k].wires]
          /\ opParams = [k \in 1..Len(d) |-> d[k].params]
          /\ observables = [k \in 1..Len(o) |-> o[k].op]
          /\ obsWires = [k \in 1..Len(o) |-> o[k].wires]
          /\ obsParams = [k \in 1..Len(o) |-> o[k].params]
          \* the caller passes the index of the last parameter
          /\ paramNumber = CountParams(d, 1) - 1
          /\ paramNumber0 = CountParams(d, 1) - 1
    /\ trainableParams \in TrainablePool
    /\ jac = <<>>
    /\ num_qubits = 0
    /\ trainableParamNumber = 0
    /\ lambdaState = <<>>
    /\ lambdas = <<>>
    /\ ajI = 0
    /\ jacWrites = <<>>
    /\ dispatched = <<>>
    /\ allocated = <<>>
    /\ freed = <<>>
    /\ ajErr = "none"
    /\ ajPc = "entry"

\* Apply.cpp:129-140 and :99-108: the head of the function and the checks of
\* apply, called on the copy of phi with num_qubits = 2 (Apply.cpp:129) and
\* with vectors of operations.size() flags.  trainableParamNumber is a
\* size_t: for an empty trainableParams it is 2^64 - 1, written -1 here (the
\* same residue modulo 2^64).
AdjointEnter ==
    /\ ajPc = "entry"
    /\ num_qubits' = 2
    /\ trainableParamNumber' = Len(trainableParams) - 1
    /\ lambdaState' = phi
    /\ allocated' = Append(allocated, <<"lambda", 0>>)
    /\ ajI' = 0
    /\ LET v == applyValidate(2, Len(phi), Len(operations), Len(opWires),
                              Len(opParams))
       IN  IF v # "none"
           THEN ajErr' = v /\ ajPc' = "thrown"
           ELSE ajErr' = ajErr /\ ajPc' = "forward"
    /\ UNCHANGED <<phi, phi0, jac, observables, obsParams, obsWires,
                   operations, opParams, opWires, trainableParams,
                   paramNumber, paramNumber0, lambdas, jacWrites, dispatched,
                   freed>>
    /\ UNCHANGED <<dispatchTable, applyVars, cgVars, ixVars, kgVars, svVars,
                   mxVars>>

\* a slip: apply is called on phi, not on the copy
AdjointForward_onPhi ==
    /\ ajPc = "forward"
    /\ ajI < Len(operations)
    /\ \E r \in {constructAndApplyOperation(dispatchTable, phi,
                     operations[ajI + 1], opWires[ajI + 1], opParams[ajI + 1],
                     FALSE, num_qubits)} :
          /\ dispatched' = Append(dispatched, operations[ajI + 1])
          /\ IF r.thrown # "none"
             THEN /\ ajErr' = r.thrown
                  /\ ajPc' = "thrown"
                  /\ UNCHANGED <<phi, ajI>>
             ELSE /\ phi' = r.arr
                  /\ ajI' = ajI + 1
                  /\ UNCHANGED <<ajErr, ajPc>>
    /\ UNCHANGED <<lambdaState, phi0, jac, observables, obsParams, obsWires,
                   operations, opParams, opWires, trainableParams,
                   paramNumber, paramNumber0, num_qubits,
                   trainableParamNumber, lambdas, jacWrites, allocated, freed>>
    /\ UNCHANGED <<dispatchTable, applyVars, cgVars, ixVars, kgVars, svVars,
                   mxVars>>

\* Apply.cpp:110-112, called from Apply.cpp:140: one pass of the loop of
\* apply, with inverse[i] = false
AdjointForward ==
    /\ ajPc = "forward"
    /\ ajI < Len(operations)
    /\ \E r \in {constructAndApplyOperation(dispatchTable, lambdaState,
                     operations[ajI + 1], opWires[ajI + 1], opParams[ajI + 1],
                     FALSE, num_qubits)} :
          /\ dispatched' = Append(dispatched, operations[ajI + 1])
          /\ IF r.thrown # "none"
             THEN /\ ajErr' = r.thrown
                  /\ ajPc' = "thrown"
                  /\ UNCHANGED <<lambdaState, ajI>>
             ELSE /\ lambdaState' = r.arr
                  /\ ajI' = ajI + 1
                  /\ UNCHANGED <<ajErr, ajPc>>
    /\ UNCHANGED <<phi, phi0, jac, observables, obsParams, obsWires,
                   operations, opParams, opWires, trainableParams,
                   paramNumber, paramNumber0, num_qubits,
                   trainableParamNumber, lambdas, jacWrites, allocated, freed>>
    /\ UNCHANGED <<dispatchTable, applyVars, cgVars, ixVars, kgVars, svVars,
                   mxVars>>

\* Apply.cpp:110 and :143: the loop of apply is over, apply returns
AdjointForwardDone ==
    /\ ajPc = "forward"
    /\ ajI >= Len(operations)
    /\ ajPc' = "seed"
    /\ UNCHANGED <<phi, phi0, jac, observables, obsParams, obsWires,
                   operations, opParams, opWires, trainableParams,
                   paramNumber, paramNumber0, num_qubits,
                   trainableParamNumber, lambdaState, lambdas, ajI, jacWrites,
                   dispatched, allocated, freed, ajErr>>
    /\ UNCHANGED <<dispatchTable, applyVars, cgVars, ixVars, kgVars, svVars,
                   mxVars>>

\* Apply.cpp:144-160: one pass of the loop over the observables
AdjointSeed ==
    /\ ajPc = "seed"
    /\ Len(lambdas) < Len(observables)
    /\ \E k \in {Len(lambdas) + 1} :
       \E r \in {constructAndApplyOperation(dispatchTable, lambdaState,
                    observables[k], obsWires[k], obsParams[k], FALSE,
                    num_qubits)} :
           /\ allocated' = Append(allocated, <<"b", k - 1>>)
           /\ dispatched' = Append(dispatched, observables[k])
           /\ IF r.thrown # "none"
              THEN /\ ajErr' = r.thrown
                   /\ ajPc' = "thrown"
                   /\ UNCHANGED lambdas
              ELSE /\ lambdas' = Append(lambdas, r.arr)
                   /\ UNCHANGED <<ajErr, ajPc>>
    /\ UNCHANGED <<phi, phi0, jac, observables, obsParams, obsWires,
                   operations, opParams, opWires, trainableParams,
                   paramNumber, paramNumber0, num_qubits,
                   trainableParamNumber, lambdaState, ajI, jacWrites, freed>>
    /\ UNCHANGED <<dispatchTable, applyVars, cgVars, ixVars, kgVars, svVars,
                   mxVars>>

\* Apply.cpp:144 and :162: the loop over the observables is over, the
\* backward sweep starts at the last operation
AdjointStartSweep ==
    /\ ajPc = "seed"
    /\ Len(lambdas) >= Len(observables)
    /\ ajI' = Len(operations) - 1
    /\ ajPc' = "sweep"
    /\ UNCHANGED <<phi, phi0, jac, observables, obsParams, obsWires,
                   operations, opParams, opWires, trainableParams,
                   paramNumber, paramNumber0, num_qubits,
                   trainableParamNumber, lambdaState, lambdas, jacWrites,
                   dispatched, allocated, freed, ajErr>>
    /\ UNCHANGED <<dispatchTable, applyVars, cgVars, ixVars, kgVars, svVars,
                   mxVars>>

\* Apply.cpp:163-164: the operation has more than one parameter
AdjointNonDifferentiable ==
    /\ ajPc = "sweep"
    /\ ajI >= 0
    /\ Len(opParams[ajI + 1]) > 1
    /\ ajErr' = "NonDifferentiable"
    /\ ajPc' = "thrown"
    /\ UNCHANGED <<phi, phi0, jac, observables, obsParams, obsWires,
                   operations, opParams, opWires, trainableParams,
                   paramNumber, paramNumber0, num_qubits,
                   trainableParamNumber, lambdaState, lambdas, ajI,
                   jacWrites, dispatched, allocated, freed>>
    /\ UNCHANGED <<dispatchTable, applyVars, cgVars, ixVars, kgVars, svVars,
                   mxVars>>

\* Apply.cpp:196-200: the loop over `lambdas` that writes jac, from position j
RECURSIVE jacobianLoop(_, _, _, _, _, _)
jacobianLoop(j, copied, mu, scalingFactor, entries, writes) ==
    IF j >= Len(lambdas) THEN [jac |-> entries, jacWrites |-> writes]
    ELSE LET sum == inner_product(lambdas[j + 1], mu)
             index == j * Len(trainableParams) + trainableParamNumber
             value == jacobianEntry(scalingFactor, sum)
         IN  jacobianLoop(j + 1, copied, mu, scalingFactor,
                 [x \in DOMAIN entries \cup {index} |->
                      IF x = index THEN value ELSE entries[x]],
                 Append(writes,
                     [index |-> index, obs |-> j, slot |-> trainableParamNumber,
                      op |-> ajI, param |-> paramNumber,
                      scalingOf |-> "RotationYGate",
                      snapshot |-> copied, b |-> lambdas[j + 1]]))

\* a slip: the copy is taken after the inverse was applied
copyToMu_late(before, after) == after

\* Apply.cpp:167-169: `mu` is a copy of the array of lambdaState taken before
\* the call at Apply.cpp:172 that applies the inverse to lambdaState
copyToMu(before, after) == before

\* a slip: the slot is not moved
nextTrainableParamNumber_same(slot) == slot

\* Apply.cpp:202: trainableParamNumber--
nextTrainableParamNumber(slot) == slot - 1

\* a slip: the counter goes down for every operation
nextParamNumber_always(parametrized, counter) == counter - 1

\* Apply.cpp:182 and :204: paramNumber-- inside `if (!opParams[i].empty())`
nextParamNumber(parametrized, counter) ==
    IF parametrized THEN counter - 1 ELSE counter

\* n copies of x
Repeat(x, n) == [k \in 1..n |-> x]

\* Apply.cpp:163-218: one pass of the backward sweep for an operation with at
\* most one parameter.  `inv` holds the outcome of the call of
\* constructAndApplyOperation with inverse = true on lambdaState (position 0,
\* Apply.cpp:172) and on each array of `lambdas` (position j + 1,
\* Apply.cpp:209).
AdjointStep ==
    /\ ajPc = "sweep"
    /\ ajI >= 0
    /\ Len(opParams[ajI + 1]) <= 1
    /\ \E k \in {ajI + 1} :
       \E parametrized \in {opParams[k] # <<>>} :
       \E trainable \in {parametrized /\ paramNumber \in Range(trainableParams)} :
          IF operations[k] \in {"QubitStateVector", "BasisState"}
          THEN UNCHANGED <<jac, paramNumber, trainableParamNumber,
                           lambdaState, lambdas, jacWrites, dispatched,
                           allocated, freed, ajErr, ajPc>>
          ELSE \E inv \in {[j \in 0..Len(lambdas) |->
                              constructAndApplyOperation(dispatchTable,
                                  IF j = 0 THEN lambdaState ELSE lambdas[j],
                                  operations[k], opWires[k], opParams[k], TRUE,
                                  num_qubits)]} :
               IF inv[0].thrown # "none"
               THEN /\ allocated' = Append(allocated, <<"mu", ajI>>)
                    /\ dispatched' = Append(dispatched, operations[k])
                    /\ ajErr' = inv[0].thrown
                    /\ ajPc' = "thrown"
                    /\ UNCHANGED <<jac, paramNumber, trainableParamNumber,
                                   lambdaState, lambdas, jacWrites, freed>>
               ELSE /\ allocated' = Append(allocated, <<"mu", ajI>>)
                    /\ lambdaState' = inv[0].arr
                    /\ IF trainable
                       THEN \E gate \in {constructGateIn(dispatchTable,
                                             operations[k], opParams[k])} :
                            \E copied \in {copyToMu(lambdaState, inv[0].arr)} :
                            \E mu \in {applyGateGenerator(copied, gate,
                                           opWires[k], num_qubits)} :
                            \E w \in {jacobianLoop(0, copied, mu,
                                          generatorScalingFactor("RotationYGate"),
                                          jac, jacWrites)} :
                               /\ jac' = w.jac
                               /\ jacWrites' = w.jacWrites
                               /\ freed' = Append(freed, <<"mu", ajI>>)
                               /\ trainableParamNumber' =
                                      nextTrainableParamNumber(trainableParamNumber)
                       ELSE UNCHANGED <<jac, jacWrites, freed,
                                        trainableParamNumber>>
                    /\ paramNumber' = nextParamNumber(parametrized, paramNumber)
                    /\ lambdas' =
                           IF ajI > 0
                           THEN [j \in 1..Len(lambdas) |-> inv[j].arr]
                           ELSE lambdas
                    /\ dispatched' =
                           dispatched \o <<operations[k]>>
                           \o (IF trainable THEN <<operations[k]>> ELSE <<>>)
                           \o (IF ajI > 0 THEN Repeat(operations[k], Len(lambdas))
                               ELSE <<>>)
                    /\ UNCHANGED <<ajErr, ajPc>>
    /\ ajI' = ajI - 1
    /\ UNCHANGED <<phi, phi0, observables, obsParams, obsWires, operations,
                   opParams, opWires, trainableParams, paramNumber0,
                   num_qubits>>
    /\ UNCHANGED <<dispatchTable, applyVars, cgVars, ixVars, kgVars, svVars,
                   mxVars>>

\* Apply.cpp:222-226: `for (int i; i < lambdas.size(); i++)` reads i without
\* a value: the loop releases the arrays from some position on (all of them
\* for 0, none for a value that is not below lambdas.size() as a size_t), and
\* the function returns
AdjointReturn ==
    /\ ajPc = "sweep"
    /\ ajI < 0
    /\ \E start \in 0..Len(lambdas) :
          freed' = freed \o [k \in 1..(Len(lambdas) - start) |->
                                 <<"b", start + k - 1>>]
    /\ ajPc' = "returned"
    /\ UNCHANGED <<phi, phi0, jac, observables, obsParams, obsWires,
                   operations, opParams, opWires, trainableParams,
                   paramNumber, paramNumber0, num_qubits,
                   trainableParamNumber, lambdaState, lambdas, ajI,
                   jacWrites, dispatched, allocated, ajErr>>
    /\ UNCHANGED <<dispatchTable, applyVars, cgVars, ixVars, kgVars, svVars,
                   mxVars>>

AjNext ==
    \/ AdjointEnter
    \/ AdjointForward
    \/ AdjointForwardDone
    \/ AdjointSeed
    \/ AdjointStartSweep
    \/ AdjointNonDifferentiable
    \/ AdjointStep
    \/ AdjointReturn

SpecAdjoint == AjInit /\ [][AjNext]_vars

\* ------------------------- specification: StateVectorBase::applyOperations

MaxSvOps == 2

SvOpPool ==
    { Op("PauliX", <<0>>, <<>>, FALSE),
      Op("RX", <<0>>, <<1>>, TRUE),
      Op("CNOT", <<0, 1>>, <<>>, FALSE) }

\* what a read past the end of `params` or `inverse` may yield
GarbageParams == {<<>>, <<1>>}

\* DynamicDispatcher::applyOperation is declared in a header that
\* StateVectorBase.hpp includes; it is taken to construct the named gate and
\* run its kernel on the amplitudes, as constructAndApplyOperation does.
dispatcherApplyOperation(table, arr, nq, opName, w, inv, p) ==
    constructAndApplyOperation(table, arr, opName, w, p, inv, nq)

\* the four vectors are the caller's and need not have the same length; the
\* overload with three arguments has no `params`
SvInit ==
    /\ dispatchTable = createDispatchTable
    /\ ApplyIdle
    /\ CgIdle
    /\ IxIdle
    /\ KgIdle
    /\ AjIdle
    /\ MxIdle
    /\ svOverload \in {3, 4}
    /\ svNumQubits \in 2..MaxQubits
    /\ svArr = InputState(exp2(svNumQubits))
    /\ svArr0 = svArr
    /\ \E d \in SeqsUpTo(SvOpPool, MaxSvOps), nW \in 0..MaxSvOps,
          nI \in 0..MaxSvOps, nP \in 0..MaxSvOps :
          /\ svOps = [k \in 1..Len(d) |-> d[k].op]
          /\ svWires = [k \in 1..nW |->
                            IF k <= Len(d) THEN d[k].wires ELSE <<0>>]
          /\ svInverse = [k \in 1..nI |->
                              IF k <= Len(d) THEN d[k].inverse ELSE FALSE]
          /\ svParams = IF svOverload = 3 THEN <<>>
                        ELSE [k \in 1..nP |->
                                  IF k <= Len(d) THEN d[k].params ELSE <<>>]
    /\ svI = 0
    /\ svApplied = <<>>
    /\ svErr = "none"
    /\ svPc = "entry"

\* StateVectorBase.hpp:204-209 and :225-230: the only check
ApplyOperationsThrow ==
    /\ svPc = "entry"
    /\ Len(svOps) # Len(svWires)
    /\ svErr' = "ShapeMismatch"
    /\ svPc' = "thrown"
    /\ UNCHANGED <<svOverload, svOps, svWires, svInverse, svParams, svArr,
                   svArr0, svNumQubits, svI, svApplied>>
    /\ UNCHANGED <<dispatchTable, applyVars, cgVars, ixVars, kgVars, ajVars,
                   mxVars>>

ApplyOperationsEnter ==
    /\ svPc = "entry"
    /\ Len(svOps) = Len(svWires)
    /\ svPc' = "loop"
    /\ UNCHANGED <<svOverload, svOps, svWires, svInverse, svParams, svArr,
                   svArr0, svNumQubits, svI, svApplied, svErr>>
    /\ UNCHANGED <<dispatchTable, applyVars, cgVars, ixVars, kgVars, ajVars,
                   mxVars>>

\* inverse[i] and params[i] exist
SvInRange ==
    /\ svI < Len(svInverse)
    /\ svOverload = 4 => svI < Len(svParams)

\* the call applyOperation(ops[i], wires[i], inv, p) and what follows it
SvApply(inv, p) ==
    \E r \in {dispatcherApplyOperation(dispatchTable, svArr, svNumQubits,
                  svOps[svI + 1], svWires[svI + 1], inv, p)} :
        /\ svApplied' = Append(svApplied, svOps[svI + 1])
        /\ IF r.thrown # "none"
           THEN /\ svErr' = r.thrown
                /\ svPc' = "thrown"
                /\ UNCHANGED <<svArr, svI>>
           ELSE /\ svArr' = r.arr
                /\ svI' = svI + 1
                /\ UNCHANGED <<svErr, svPc>>

\* StateVectorBase.hpp:210-212 and :231-233: one pass of the loop
ApplyOperationsStep ==
    /\ svPc = "loop"
    /\ svI < Len(svOps)
    /\ SvInRange
    /\ SvApply(svInverse[svI + 1],
               IF svOverload = 4 THEN svParams[svI + 1] ELSE <<>>)
    /\ UNCHANGED <<svOverload, svOps, svWires, svInverse, svParams, svArr0,
                   svNumQubits>>
    /\ UNCHANGED <<dispatchTable, applyVars, cgVars, ixVars, kgVars, ajVars,
                   mxVars>>

\* StateVectorBase.hpp:211 and :232 with inverse[i] or params[i] past the end
\* of the vector: the read has no defined value, the gate is applied with
\* whatever it yields
ApplyOperationsReadPastEnd ==
    /\ svPc = "loop"
    /\ svI < Len(svOps)
    /\ ~SvInRange
    /\ \E inv \in IF svI < Len(svInverse) THEN {svInverse[svI + 1]} ELSE BOOLEAN,
          p \in IF svOverload = 3 THEN {<<>>}
                ELSE IF svI < Len(svParams) THEN {svParams[svI + 1]}
                ELSE GarbageParams :
          SvApply(inv, p)
    /\ UNCHANGED <<svOverload, svOps, svWires, svInverse, svParams, svArr0,
                   svNumQubits>>
    /\ UNCHANGED <<dispatchTable, applyVars, cgVars, ixVars, kgVars, ajVars,
                   mxVars>>

\* the same read, ending the process (an access outside the mapped memory)
ApplyOperationsFault ==
    /\ svPc = "loop"
    /\ svI < Len(svOps)
    /\ ~SvInRange
    /\ svPc' = "fault"
    /\ UNCHANGED <<svOverload, svOps, svWires, svInverse, svParams, svArr,
                   svArr0, svNumQubits, svI, svApplied, svErr>>
    /\ UNCHANGED <<dispatchTable, applyVars, cgVars, ixVars, kgVars, ajVars,
                   mxVars>>

\* StateVectorBase.hpp:210-213: the loop is over
ApplyOperationsReturn ==
    /\ svPc = "loop"
    /\ svI >= Len(svOps)
    /\ svPc' = "returned"
    /\ UNCHANGED <<svOverload, svOps, svWires, svInverse, svParams, svArr,
                   svArr0, svNumQubits, svI, svApplied, svErr>>
    /\ UNCHANGED <<dispatchTable, applyVars, cgVars, ixVars, kgVars, ajVars,
                   mxVars>>

SvNext ==
    \/ ApplyOperationsThrow
    \/ ApplyOperationsEnter
    \/ ApplyOperationsStep
    \/ ApplyOperationsReadPastEnd
    \/ ApplyOperationsFault
    \/ ApplyOperationsReturn

SpecOperations == SvInit /\ [][SvNext]_vars

\* ----------------------------- specification: StateVectorBase::applyMatrix

MaxMatrixWires == 2

\* Gates::MatrixOperation
MatrixOperations == {"SingleQubitOp", "TwoQubitOp", "MultiQubitOp"}

\* matrices of 2^(2k) elements for k wires
MxMatrices(k) ==
    CASE k = 1 -> {constructGateIn(createDispatchTable, "PauliX", <<>>).matrix,
                   constructGateIn(createDispatchTable, "S", <<>>).matrix}
      [] k = 2 -> {constructGateIn(createDispatchTable, "CNOT", <<>>).matrix}
      [] k = 3 -> {constructGateIn(createDispatchTable, "Toffoli", <<>>).matrix}
      [] OTHER -> {<<ONE>>}

\* vectors whose size is not 2^(2k) for the wire lists of the model
MxOddMatrices == {<<>>, <<ONE>>, <<ZERO, ONE>>, [k \in 1..8 |-> ONE]}

\* DynamicDispatcher::applyMatrix is declared in a header that
\* StateVectorBase.hpp includes; it is taken to run the matrix kernel on the
\* amplitudes: gather, multiply by the matrix (or its adjoint), scatter
dispatcherApplyMatrix(arr, nq, matrix, w, inv) ==
    AbstractGate_applyKernel([matrix |-> matrix], arr,
        generateBitPatterns(w, nq),
        generateBitPatterns(getIndicesAfterExclusion(w, nq), nq), inv)

\* a pointer argument points to a matrix of the size the wires ask for; the
\* size of a vector argument is the caller's choice
MxInit ==
    /\ dispatchTable = createDispatchTable
    /\ ApplyIdle
    /\ CgIdle
    /\ IxIdle
    /\ KgIdle
    /\ AjIdle
    /\ SvIdle
    /\ mxOverload \in {"kernel", "pointer", "vector"}
    /\ mxKernel \in IF mxOverload = "kernel" THEN MatrixOperations ELSE {"none"}
    /\ mxNumQubits \in 2..MaxQubits
    /\ mxWires \in UNION {WireLists(k, mxNumQubits) : k \in 0..MaxMatrixWires}
    /\ mxMatrix \in IF mxOverload = "vector"
                    THEN MxMatrices(1) \cup MxMatrices(2) \cup MxOddMatrices
                    ELSE MxMatrices(Len(mxWires))
    /\ mxInverse \in BOOLEAN
    /\ mxArr = InputState(exp2(mxNumQubits))
    /\ mxArr0 = mxArr
    /\ mxKernelCalls = <<>>
    /\ mxErr = "none"
    /\ mxPc = mxOverload

\* StateVectorBase.hpp:333-337
MxVectorThrows ==
    /\ mxPc = "vector"
    /\ Len(mxMatrix) # exp2(2 * Len(mxWires))
    /\ mxErr' = "invalid_argument"
    /\ mxPc' = "thrown"
    /\ UNCHANGED <<mxOverload, mxKernel, mxMatrix, mxWires, mxInverse, mxArr,
                   mxArr0, mxNumQubits, mxKernelCalls>>
    /\ UNCHANGED <<dispatchTable, applyVars, cgVars, ixVars, kgVars, ajVars,
                   svVars>>

\* StateVectorBase.hpp:333 and :339: the size fits, matrix.data() is passed on
MxVector ==
    /\ mxPc = "vector"
    /\ Len(mxMatrix) = exp2(2 * Len(mxWires))
    /\ mxPc' = "pointer"
    /\ UNCHANGED <<mxOverload, mxKernel, mxMatrix, mxWires, mxInverse, mxArr,
                   mxArr0, mxNumQubits, mxKernelCalls, mxErr>>
    /\ UNCHANGED <<dispatchTable, applyVars, cgVars, ixVars, kgVars, ajVars,
                   svVars>>

\* StateVectorBase.hpp:310-313
MxPointerThrows ==
    /\ mxPc = "pointer"
    /\ mxWires = <<>>
    /\ mxErr' = "invalid_argument"
    /\ mxPc' = "thrown"
    /\ UNCHANGED <<mxOverload, mxKernel, mxMatrix, mxWires, mxInverse, mxArr,
                   mxArr0, mxNumQubits, mxKernelCalls>>
    /\ UNCHANGED <<dispatchTable, applyVars, cgVars, ixVars, kgVars, ajVars,
                   svVars>>

\* StateVectorBase.hpp:315-326: the kernel for the number of wires
MxPointer ==
    /\ mxPc = "pointer"
    /\ mxWires # <<>>
    /\ mxKernel' = CASE Len(mxWires) = 1 -> "SingleQubitOp"
                     [] Len(mxWires) = 2 -> "TwoQubitOp"
                     [] OTHER -> "MultiQubitOp"
    /\ mxPc' = "kernel"
    /\ UNCHANGED <<mxOverload, mxMatrix, mxWires, mxInverse, mxArr, mxArr0,
                   mxNumQubits, mxKernelCalls, mxErr>>
    /\ UNCHANGED <<dispatchTable, applyVars, cgVars, ixVars, kgVars, ajVars,
                   svVars>>

\* StateVectorBase.hpp:288-291
MxKernelThrows ==
    /\ mxPc = "kernel"
    /\ mxWires = <<>>
    /\ mxErr' = "invalid_argument"
    /\ mxPc' = "thrown"
    /\ UNCHANGED <<mxOverload, mxKernel, mxMatrix, mxWires, mxInverse, mxArr,
                   mxArr0, mxNumQubits, mxKernelCalls>>
    /\ UNCHANGED <<dispatchTable, applyVars, cgVars, ixVars, kgVars, ajVars,
                   svVars>>

\* a slip: the test for an empty wire list is missing
MxDispatch_unguarded ==
    /\ mxPc = "kernel"
    /\ \E r \in {dispatcherApplyMatrix(mxArr, mxNumQubits, mxMatrix, mxWires,
                                       mxInverse)} :
          mxArr' = r
    /\ mxKernelCalls' = Append(mxKernelCalls,
                            [kernel |-> mxKernel, size |-> Len(mxMatrix),
                             wires |-> mxWires])
    /\ mxPc' = "returned"
    /\ UNCHANGED <<mxOverload, mxKernel, mxMatrix, mxWires, mxInverse, mxArr0,
                   mxNumQubits, mxErr>>
    /\ UNCHANGED <<dispatchTable, applyVars, cgVars, ixVars, kgVars, ajVars,
                   svVars>>

\* StateVectorBase.hpp:288 and :293-294
MxDispatch ==
    /\ mxPc = "kernel"
    /\ mxWires # <<>>
    /\ \E r \in {dispatcherApplyMatrix(mxArr, mxNumQubits, mxMatrix, mxWires,
                                       mxInverse)} :
          mxArr' = r
    /\ mxKernelCalls' = Append(mxKernelCalls,
                            [kernel |-> mxKernel, size |-> Len(mxMatrix),
                             wires |-> mxWires])
    /\ mxPc' = "returned"
    /\ UNCHANGED <<mxOverload, mxKernel, mxMatrix, mxWires, mxInverse, mxArr0,
                   mxNumQubits, mxErr>>
    /\ UNCHANGED <<dispatchTable, applyVars, cgVars, ixVars, kgVars, ajVars,
                   svVars>>

MxNext ==
    \/ MxVectorThrows
    \/ MxVector
    \/ MxPointerThrows
    \/ MxPointer
    \/ MxKernelThrows
    \/ MxDispatch

SpecMatrix == MxInit /\ [][MxNext]_vars

\* ------------------------------------------------- claims: index generator

Generated == ixPc \in {"generated", "done"}

\* C1: for a duplicate-free wire list inside the register, the sums e + i
\* over external offsets e and internal offsets i are pairwise distinct and
\* are exactly the indices 0 .. 2^n - 1.
C1_PartitionOfIndices ==
    (Generated /\ NoDup(ixWires)) =>
        LET E == 1..Len(externalIndices)
            I == 1..Len(internalIndices)
            sum(e, q) == externalIndices[e] + internalIndices[q]
        IN  /\ \A e1, e2 \in E : \A i1, i2 \in I :
                   (sum(e1, i1) = sum(e2, i2)) => (e1 = e2 /\ i1 = i2)
            /\ {sum(e, q) : e \in E, q \in I} = 0..(exp2(ixQubits) - 1)

C1_Witness ==
    /\ Generated
    /\ ixQubits = 3
    /\ ixWires = <<2, 0>>
    /\ Len(externalIndices) = 2

\* bit b of the position p
Bit(p, b) == (p \div exp2(b)) % 2

RECURSIVE SumOver(_, _, _)
SumOver(f(_), lo, hi) == IF lo > hi THEN 0 ELSE f(lo) + SumOver(f, lo + 1, hi)

\* the closed form of the emission order: the first wire is the most
\* significant bit of the position, the last wire the least significant
ClosedForm(w, n, p) ==
    LET k == Len(w)
        term(j) == Bit(p, k - j) * exp2(n - 1 - w[j])
    IN  SumOver(term, 1, k)

\* C2: the element at position p of generateBitPatterns(wires, n) is the
\* closed form above, and the loop of Apply.cpp and the reverse-iterator loop
\* of SimulatorUtil.cpp return the same sequence.
C2_EmissionOrder ==
    (ixPc = "done" /\ NoDup(ixWires)) =>
        /\ Len(internalIndices) = exp2(Len(ixWires))
        /\ \A p \in 0..(Len(internalIndices) - 1) :
               internalIndices[p + 1] = ClosedForm(ixWires, ixQubits, p)
        /\ utilInternal = internalIndices
        /\ utilExternal = externalIndices

C2_Witness ==
    /\ ixPc = "done"
    /\ ixQubits = 3
    /\ ixWires = <<1, 2, 0>>
    /\ internalIndices = <<0, 4, 1, 5, 2, 6, 3, 7>>

\* C3: for a duplicate-free list of k wires of the register the result has
\* exactly 2^k offsets, no two of them equal; the empty list gives <<0>>.
C3_LengthAndNoDuplicates ==
    (Generated /\ NoDup(ixWires)) =>
        /\ Len(internalIndices) = exp2(Len(ixWires))
        /\ NoDup(internalIndices)
        /\ (ixWires = <<>> => internalIndices = <<0>>)
        /\ Len(externalIndices) = exp2(Len(externalWires))
        /\ NoDup(externalIndices)

C3_Witness ==
    /\ Generated
    /\ Len(ixWires) = 3
    /\ NoDup(ixWires)
    /\ Len(internalIndices) = 8

\* C4: getIndicesAfterExclusion returns the wires of [0, n) that do not occur
\* in the excluded list, each once, strictly ascending, for any excluded list
\* (unordered, with repeats, with values outside the register).
C4_ExclusionAscending ==
    (ixPc # "start") =>
        /\ Range(externalWires) = (0..(ixQubits - 1)) \ Range(ixWires)
        /\ \A p, q \in 1..Len(externalWires) :
               p < q => externalWires[p] < externalWires[q]
        /\ utilExternalWires = externalWires

C4_Witness ==
    /\ ixPc = "excluded"
    /\ ixQubits = 3
    /\ ixWires = <<3, 1, 1>>
    /\ externalWires = <<0, 2>>

\* ----------------------------------------------- claims: the apply driver

\* the amplitudes after the first k operations of the list have been applied
\* to the caller's amplitudes one after another, each with the flag it was
\* run with
RECURSIVE RunPrefix(_)
RunPrefix(k) ==
    IF k = 0 THEN state0
    ELSE constructAndApplyOperation(dispatchTable, RunPrefix(k - 1), ops[k],
                                    wires[k], params[k], invRead[k], qubits).arr

InCall == pc \in {"loop", "returned", "thrown", "crashed"}

OpErrors == {"UnknownGate", "BadParameterCount", "ArityMismatch"}

\* C5: within one apply call the operations are applied in list order, each
\* exactly once: the kernels that have run are those of positions 0 .. i-1 in
\* that order, the state is the caller's state with these operations applied
\* one after another, and apply returns only after the whole list.
C5_ListOrder ==
    InCall =>
        /\ applied = [k \in 1..Len(applied) |-> k - 1]
        /\ Len(applied) = i
        /\ \A k \in 1..Len(applied) : k <= Len(inverse) => invRead[k] = inverse[k]
        /\ state = RunPrefix(Len(applied))
        /\ (pc = "returned" => Len(applied) = Len(ops))

C5_Witness ==
    /\ pc = "returned"
    /\ ops = <<"RX", "CNOT">>
    /\ qubits = 2
    /\ applied = <<0, 1>>
    /\ state # state0

\* C6: when operation i fails (unknown gate, bad parameter count, arity
\* mismatch) apply is left at once: the state is the caller's state with
\* exactly the operations 0 .. i-1 applied, the failing operation has changed
\* nothing, and no further step of the call is possible.
C6_NoRollback ==
    /\ (err \in OpErrors) => (pc = "thrown")
    /\ (pc = "thrown" /\ err \in OpErrors) =>
        /\ i < Len(ops)
        /\ \A inv \in InverseAt(i) : StepOutcome(inv).thrown = err
        /\ applied = [k \in 1..i |-> k - 1]
        /\ state = RunPrefix(i)
        /\ ~ENABLED ApplyNext

C6_Witness ==
    /\ pc = "thrown"
    /\ err = "UnknownGate"
    /\ i = 1
    /\ ops = <<"PauliX", "Frobnicate">>
    /\ state # state0

\* C7: apply throws DimensionMismatch when the qubit count is 0 or the state
\* length is not 2^n, before any gate is constructed or applied; the state is
\* the caller's.
C7_DimensionMismatch ==
    (InCall /\ (qubits = 0 \/ Len(state0) # exp2(qubits))) =>
        /\ pc = "thrown"
        /\ err = "DimensionMismatch"
        /\ state = state0
        /\ constructed = 0
        /\ applied = <<>>
        /\ indexed = <<>>

C7_Witness ==
    /\ pc = "thrown"
    /\ err = "DimensionMismatch"
    /\ qubits = 2
    /\ Len(state0) = 8
    /\ Len(ops) = 2

\* C8: with a valid qubit count and state length, apply throws ShapeMismatch
\* before applying any gate when wires, params or inverse differs in length
\* from ops.
C8_ShapeValidated ==
    (InCall /\ qubits >= 1 /\ Len(state0) = exp2(qubits)
       /\ (Len(wires) # Len(ops) \/ Len(params) # Len(ops)
             \/ Len(inverse) # Len(ops))) =>
        /\ pc = "thrown"
        /\ err = "ShapeMismatch"
        /\ state = state0
        /\ applied = <<>>

\* the gate constructGate yields for the operation at loop position k
GateAt(k) == constructGateIn(dispatchTable, ops[k + 1], params[k + 1])

\* C9: an operation whose wire count differs from the arity of its
\* constructed gate ends the call with ArityMismatch before the index sets
\* are built and before the kernel runs, and changes no amplitude; index sets
\* are built and kernels run only for operations whose wire count matches.
C9_ArityChecked ==
    /\ \A k \in Range(applied) \cup Range(indexed) :
           /\ ~Thrown(GateAt(k))
           /\ GateAt(k).numQubits = Len(wires[k + 1])
    /\ (pc = "thrown" /\ err \in OpErrors /\ ~Thrown(GateAt(i))) =>
           /\ GateAt(i).numQubits # Len(wires[i + 1])
           /\ err = "ArityMismatch"
    /\ (pc = "thrown" /\ err = "ArityMismatch") =>
           /\ ~Thrown(GateAt(i))
           /\ GateAt(i).numQubits # Len(wires[i + 1])
           /\ i \notin Range(indexed)
           /\ i \notin Range(applied)
           /\ state = RunPrefix(i)

C9_Witness ==
    /\ pc = "thrown"
    /\ err = "ArityMismatch"
    /\ i = 1
    /\ ops[2] = "CNOT"
    /\ Len(wires[2]) = 1
    /\ indexed = <<0>>

\* ------------------------------------------------ claims: the dispatcher

CatalogueLabels ==
    {"PauliX", "PauliY", "PauliZ", "Hadamard", "S", "T", "RX", "RY", "RZ",
     "PhaseShift", "Rot", "CNOT", "SWAP", "CZ", "CRX", "CRY", "CRZ", "CRot",
     "Toffoli", "CSWAP", "QubitUnitary"}

C10_Lookup ==
    /\ DOMAIN dispatchTable = CatalogueLabels
    /\ Cardinality(DOMAIN dispatchTable) = 21
    /\ (cgPc = "done") =>
        /\ (cgLabel \notin CatalogueLabels) => (cgResult = Throw("UnknownGate"))
        /\ (cgLabel \in CatalogueLabels) =>
               IF Thrown(cgResult) THEN cgResult.thrown = "BadParameterCount"
               ELSE cgResult.label = cgLabel

\* C10: constructGate finds a constructor exactly for the 21 labels of the
\* catalogue, compared case-sensitively; any other label throws UnknownGate;
\* and no step ever changes the dispatch table.
C10_Catalogue == [](C10_Lookup) /\ [][dispatchTable' = dispatchTable]_vars

C10_Witness ==
    /\ cgPc = "done"
    /\ cgLabel = "paulix"
    /\ cgResult = Throw("UnknownGate")

\* ------------------------------------------- claims: parameter validation

\* the parameter count each gate of the catalogue declares; for QubitUnitary
\* the lengths 2 * (2^k)^2 with k >= 1 that a parameter list of the model
\* can have
DeclaredCounts(l) ==
    CASE l \in {"PauliX", "PauliY", "PauliZ", "Hadamard", "S", "T", "CNOT",
                "SWAP", "CZ", "Toffoli", "CSWAP"} -> {0}
      [] l \in {"RX", "RY", "RZ", "PhaseShift", "CRX", "CRY", "CRZ"} -> {1}
      [] l \in {"Rot", "CRot"} -> {3}
      [] l = "QubitUnitary" -> {2 * exp2(k) * exp2(k) : k \in 1..MaxQubits}

\* C11: for every gate of the catalogue constructGate succeeds if and only if
\* the parameter list has the gate's declared length, and otherwise throws
\* BadParameterCount.
C11_ParameterCount ==
    (cgPc = "done" /\ cgLabel \in CatalogueLabels) =>
        IF Len(cgParameters) \in DeclaredCounts(cgLabel)
        THEN ~Thrown(cgResult)
        ELSE cgResult = Throw("BadParameterCount")

\* C12: QubitUnitary with a list of 8 reals is a gate of arity 1 that apply
\* accepts on one wire, and with the matrix [[0,1],[1,0]] it leaves the state
\* PauliX leaves.
C12_UnitaryArity ==
    (/\ pc \in {"returned", "thrown"}
     /\ ops = <<"QubitUnitary">>
     /\ wires = <<<<0>>>>
     /\ params = <<<<0, 0, 1, 0, 1, 0, 0, 0>>>>
     /\ inverse = <<FALSE>>
     /\ Validation = "none") =>
        /\ pc = "returned"
        /\ GateAt(0).numQubits = 1
        /\ state = constructAndApplyOperation(dispatchTable, state0, "PauliX",
                       <<0>>, <<>>, FALSE, qubits).arr

\* ----------------------------------------------------- claims: the kernels

KgApplied == kgPc \in {"forward", "inverted", "done"}

SpecialisedKernels ==
    {"PauliX", "PauliY", "PauliZ", "Hadamard", "S", "T", "RZ", "PhaseShift",
     "CNOT", "SWAP", "CZ", "CRX", "CRY", "CRZ", "CRot", "Toffoli", "CSWAP"}

\* C14: every specialised kernel leaves, for every state and every
\* duplicate-free wire list of the gate's arity, the amplitudes that the
\* gather-multiply-scatter kernel leaves with the gate's matrix on the same
\* index sets.
C14_KernelsAgree ==
    (kgPc = "done" /\ kgLabel \in SpecialisedKernels) =>
        /\ kgErr = "none"
        /\ kgMid = kgGeneric

C14_Witness ==
    /\ kgPc = "done"
    /\ kgLabel = "CZ"
    /\ kgQubits = 3
    /\ kgWires = <<2, 0>>
    /\ kgErr = "none"
    /\ kgMid # kgState0
    /\ kgMid = kgGeneric

\* the bit of wire w in the index x of an n-qubit register
WireBit(x, w, n) == Bit(x, n - 1 - w)

\* x with the bit of wire c flipped when the bits of wires a and b are set
ToffoliImage(x, a, b, c, n) ==
    IF WireBit(x, a, n) = 1 /\ WireBit(x, b, n) = 1
    THEN IF WireBit(x, c, n) = 1 THEN x - exp2(n - 1 - c)
         ELSE x + exp2(n - 1 - c)
    ELSE x

\* C15: Toffoli on wires [a, b, c] maps the basis state e_x to e_y, y being x
\* with the bit of wire c flipped when the bits of wires a and b are both 1,
\* and x otherwise; on wires [0, 1, 2] of 3 qubits indices 6 and 7 change
\* places.
C15_ToffoliTruthTable ==
    (KgApplied /\ kgLabel = "Toffoli") =>
        /\ kgErr = "none"
        /\ \A x \in 0..(exp2(kgQubits) - 1) :
              kgState0 = BasisVector(x, exp2(kgQubits)) =>
                  kgMid = BasisVector(
                              ToffoliImage(x, kgWires[1], kgWires[2],
                                           kgWires[3], kgQubits),
                              exp2(kgQubits))

C15_Witness ==
    /\ kgPc = "forward"
    /\ kgLabel = "Toffoli"
    /\ kgQubits = 3
    /\ kgWires = <<0, 1, 2>>
    /\ kgState0 = BasisVector(6, 8)
    /\ kgMid = BasisVector(7, 8)

\* ------------------------------------------------ claims: adjointJacobian

\* the labels Apply.cpp:165 compares with
Markers == {"QubitStateVector", "BasisState"}

\* the call threw while it was working on operations[ajI + 1]
FailedAtOperation ==
    /\ ajPc = "thrown"
    /\ ajErr \in {"UnknownGate", "BadParameterCount", "ArityMismatch",
                  "NonDifferentiable"}
    /\ ajI >= 0
    /\ ajI < Len(operations)

\* C16: an operation labelled QubitStateVector or BasisState is never handed
\* to the gate dispatcher, neither in the forward pass nor in the backward
\* sweep, and the call never fails at such an operation.
C16_MarkersSkipped ==
    /\ \A k \in 1..Len(dispatched) : dispatched[k] \notin Markers
    /\ FailedAtOperation => operations[ajI + 1] \notin Markers

\* the number of parameters of the operations before position k (from 1)
RECURSIVE ParamsBefore(_)
ParamsBefore(k) ==
    IF k <= 1 THEN 0 ELSE Len(opParams[k - 1]) + ParamsBefore(k - 1)

\* the indices, in the circuit's parameter list, of the parameters of
\* operations[k]
ParamIndices(k) ==
    {ParamsBefore(k) + x : x \in 0..(Len(opParams[k]) - 1)}

\* operations[k] has more than one parameter and one of them is trainable
TrainableMultiParam(k) ==
    /\ Len(opParams[k]) > 1
    /\ ParamIndices(k) \cap Range(trainableParams) # {}

\* C17: the call fails with NonDifferentiable only at an operation with more
\* than one parameter one of whose parameters is trainable, and a call that
\* returns has met no such operation.
C17_NonDifferentiable ==
    /\ (ajPc = "thrown" /\ ajErr = "NonDifferentiable") =>
           TrainableMultiParam(ajI + 1)
    /\ ajPc = "returned" =>
           \A k \in 1..Len(operations) : ~TrainableMultiParam(k)

\* the number of entries of the buffer jac: |observables| x |trainable|
JacSize == Len(observables) * Len(trainableParams)

\* every index of trainableParams is the index of the parameter of a gate
\* with one parameter, and no index is listed twice
TrainableSingleParam ==
    /\ \A x \in Range(trainableParams) :
           \E k \in 1..Len(operations) :
               /\ operations[k] \notin Markers
               /\ Len(opParams[k]) = 1
               /\ ParamIndices(k) = {x}
    /\ Cardinality(Range(trainableParams)) = Len(trainableParams)

\* the writes recorded so far follow the row-major layout, slot by slot from
\* the last one down
RowMajorWrites ==
    \A n \in 1..Len(jacWrites) :
        LET w == jacWrites[n]
        IN  /\ w.index = w.obs * Len(trainableParams) + w.slot
            /\ w.obs \in 0..(Len(observables) - 1)
            /\ \A m \in 1..(n - 1) :
                   jacWrites[m].op = w.op \/ jacWrites[m].slot = w.slot + 1
                   \/ jacWrites[m].slot > w.slot + 1
            /\ (\A m \in 1..(n - 1) : jacWrites[m].op = w.op) =>
                   w.slot = Len(trainableParams) - 1

\* each entry of jac was written exactly once, and nothing else was written
WrittenOnce ==
    /\ \A x \in 0..(JacSize - 1) :
           Cardinality({n \in 1..Len(jacWrites) : jacWrites[n].index = x}) = 1
    /\ \A n \in 1..Len(jacWrites) : jacWrites[n].index \in 0..(JacSize - 1)

\* C18: jac is written as a row-major |observables| x |trainable| matrix, the
\* slot starting at |trainable| - 1 and going down by one per trainable
\* operation; when every trainable index is the index of the parameter of a
\* single-parameter operation, no write is out of range and, once the call is
\* over, every entry has been written exactly once.
C18_JacobianLayout ==
    /\ RowMajorWrites
    /\ TrainableSingleParam =>
           /\ \A n \in 1..Len(jacWrites) : jacWrites[n].index \in 0..(JacSize - 1)
           /\ (ajPc \in {"returned", "thrown"} /\ Len(phi) = exp2(2)) => WrittenOnce

\* how many times the buffer b was released
TimesFreed(b) == Cardinality({n \in 1..Len(freed) : freed[n] = b})

\* C19: when the call is over, by a return or by an exception, each buffer it
\* allocated (the copy lambda, the copies b_j, the snapshots mu) has been
\* released exactly once; no buffer is ever released twice.
C19_BuffersFreed ==
    /\ \A n \in 1..Len(freed) :
           freed[n] \in Range(allocated) /\ TimesFreed(freed[n]) = 1
    /\ ajPc \in {"returned", "thrown"} =>
           \A n \in 1..Len(allocated) : TimesFreed(allocated[n]) = 1

\* ------------------------------------------------ claims: applyOperations

\* the vectors the overload takes have the same number of elements
SvCountsEqual ==
    /\ Len(svOps) = Len(svWires)
    /\ svOverload = 4 => Len(svOps) = Len(svParams)

\* C20: when the numbers of operations, of wire lists and of parameter lists
\* are not all equal, applyOperations throws invalid_argument, no gate has
\* been applied and the amplitudes are as they were.
C20_RejectsMismatch ==
    (svPc \notin {"idle", "entry"} /\ ~SvCountsEqual) =>
        /\ svPc = "thrown"
        /\ svErr = "ShapeMismatch"
        /\ svApplied = <<>>
        /\ svArr = svArr0

\* ---------------------------------------------------- claims: applyMatrix

\* the call was made with no wire, or with a vector of a size other than
\* 2^(2 * |wires|)
MxInvalidShape ==
    \/ mxWires = <<>>
    \/ mxOverload = "vector" /\ Len(mxMatrix) # exp2(2 * Len(mxWires))

\* C21: a call of applyMatrix with an empty wire list (any overload), or with
\* a vector whose size is not 2^(2 * |wires|), ends with invalid_argument,
\* never calls the dispatcher's kernel and leaves the amplitudes as they were;
\* every kernel call has a wire and, from the vector overload, a matrix of
\* the size the wires ask for.
C21_MatrixShapes ==
    /\ \A n \in 1..Len(mxKernelCalls) :
           /\ mxKernelCalls[n].wires # <<>>
           /\ mxOverload = "vector" =>
                  mxKernelCalls[n].size = exp2(2 * Len(mxKernelCalls[n].wires))
    /\ MxInvalidShape =>
           /\ mxKernelCalls = <<>>
           /\ mxArr = mxArr0
           /\ mxPc \notin {"idle", "vector", "pointer", "kernel"} =>
                  (mxPc = "thrown" /\ mxErr = "invalid_argument")

\* a vector of four elements with no wire passes the size test only for one
\* element: here a vector of one element reached the pointer overload and
\* was rejected there
C21_Witness ==
    /\ mxOverload = "vector"
    /\ mxWires = <<>>
    /\ Len(mxMatrix) = 1
    /\ mxPc = "thrown"
    /\ mxErr = "invalid_argument"
    /\ mxKernelCalls = <<>>

\* ------------------------------------------------ claims: controlled gates

ControlledLabels ==
    {"CNOT", "CZ", "CRX", "CRY", "CRZ", "CRot", "Toffoli", "CSWAP"}

\* the index x is in the subspace the gate `l` on the wires w does not act
\* on: the bit of the first wire is 0 (for Toffoli, or that of the second)
ControlZero(l, x, w, n) ==
    \/ WireBit(x, w[1], n) = 0
    \/ l = "Toffoli" /\ WireBit(x, w[2], n) = 0

\* C22: a controlled gate applied on a duplicate-free wire list leaves every
\* amplitude whose index has bit 0 at the first wire (for Toffoli also at the
\* second wire) as it was.
C22_ControlZeroIdentity ==
    (KgApplied /\ kgLabel \in ControlledLabels) =>
        /\ kgErr = "none"
        /\ \A x \in 0..(exp2(kgQubits) - 1) :
               ControlZero(kgLabel, x, kgWires, kgQubits) =>
                   kgMid[x + 1] = kgState0[x + 1]

\* CRX on wires [2, 0] of three qubits changed the amplitudes of the
\* control-1 subspace of an array of pairwise distinct amplitudes
C22_Witness ==
    /\ kgPc = "forward"
    /\ kgLabel = "CRX"
    /\ kgQubits = 3
    /\ kgWires = <<2, 0>>
    /\ kgState0 = InputState(8)
    /\ kgMid # kgState0

\* ------------------------------------------------- claims: amplitude blocks

\* the amplitudes the kernel addresses for the external offset e
Block(e) == {e + x : x \in Range(generateBitPatterns(kgWires, kgQubits))}

\* C23: the blocks of two distinct external offsets are disjoint; whatever
\* the order in which the blocks are processed, a block not yet processed
\* holds the caller's amplitudes and a processed block holds the amplitudes
\* the sequential loop leaves there, so that the state after the last block
\* is the state the sequential loop yields.
C23_BlocksIndependent ==
    (kgPc = "forward" /\ kgErr = "none") =>
        /\ \A e1, e2 \in ExternalOffsets(kgWires, kgQubits) :
               e1 # e2 => Block(e1) \cap Block(e2) = {}
        /\ \A e \in ExternalOffsets(kgWires, kgQubits) : \A x \in Block(e) :
               kgPar[x + 1] = IF e \in kgPending THEN kgState0[x + 1]
                              ELSE kgMid[x + 1]
        /\ kgPending = {} => kgPar = kgMid

\* RX on wire 1 of three qubits: two of the four blocks done, the other two
\* not
C23_Witness ==
    /\ kgPc = "forward"
    /\ kgLabel = "RX"
    /\ kgQubits = 3
    /\ kgWires = <<1>>
    /\ Cardinality(kgPending) = 2
    /\ kgPar # kgState0
    /\ kgPar # kgMid

\* ------------------------------------- claims: adjointJacobian, the sweep

\* the number of operations with a parameter after position k (from 1)
ParamOpsAfter(k) ==
    Cardinality({n \in (k + 1)..Len(operations) : opParams[n] # <<>>})

\* C24: in the backward sweep the parameter counter goes down by one for
\* each operation with a parameter and stays for an operation without: when
\* operation i is reached, and when its entries are written, the counter is
\* the starting index minus the number of operations with a parameter after
\* i in the list.
C24_ParamCounter ==
    /\ ajPc = "sweep" =>
           paramNumber = paramNumber0 - ParamOpsAfter(ajI + 1)
    /\ \A n \in 1..Len(jacWrites) :
           jacWrites[n].param = paramNumber0 - ParamOpsAfter(jacWrites[n].op + 1)
    /\ ajPc = "returned" => paramNumber = paramNumber0 - ParamOpsAfter(0)

\* RX then PauliX: the sweep passed PauliX without touching the counter, used
\* index 0 for RX and took it down to -1
C24_Witness ==
    /\ ajPc = "sweep"
    /\ ajI = -1
    /\ operations = <<"RX", "PauliX">>
    /\ trainableParams = <<0>>
    /\ observables = <<"PauliZ">>
    /\ paramNumber0 = 0
    /\ paramNumber = -1
    /\ Len(jacWrites) = 1
    /\ jacWrites[1].param = 0

\* C25: the factor that scales the entries written for an operation is the
\* generator scaling factor of the gate type of that operation.
C25_OwnScalingFactor ==
    \A n \in 1..Len(jacWrites) :
        generatorScalingFactor(jacWrites[n].scalingOf) =
            generatorScalingFactor(
                dispatchTable[operations[jacWrites[n].op + 1]])

\* C26: inside a call the qubit count used for every index set is that of
\* the state passed in (its length is 2^num_qubits), whatever n >= 1, and the
\* call does not fail with DimensionMismatch.
C26_QubitsFromState ==
    ajPc \notin {"idle", "entry"} =>
        /\ exp2(num_qubits) = Len(phi)
        /\ ajErr # "DimensionMismatch"

\* --------------------------------------- claims: the checks of one operation

\* apply was left by an exception of constructAndApplyOperation for ops[i]
ThrownAtOperation ==
    /\ pc = "thrown"
    /\ err \in {"UnknownGate", "BadParameterCount", "ArityMismatch"}
    /\ i < Len(ops)

\* C27: the checks of one operation come in the order label, parameter
\* count, wire count: an unknown label gives UnknownGate, a known label with
\* a parameter count that is not the gate's gives BadParameterCount, and
\* ArityMismatch is given only for a known label with its parameter count;
\* the operation that fails changes no amplitude.
C27_CheckOrder ==
    ThrownAtOperation =>
        /\ ops[i + 1] \notin CatalogueLabels => err = "UnknownGate"
        /\ (/\ ops[i + 1] \in CatalogueLabels
            /\ Len(params[i + 1]) \notin DeclaredCounts(ops[i + 1])) =>
               err = "BadParameterCount"
        /\ err = "ArityMismatch" =>
               /\ ops[i + 1] \in CatalogueLabels
               /\ Len(params[i + 1]) \in DeclaredCounts(ops[i + 1])
        /\ state = RunPrefix(i)

\* C28: the amplitudes of the state the caller passed in are, at every point
\* of the call and after it, returned or failed, the amplitudes at the call.
C28_CallerStateKept == phi = phi0

\* in the middle of the sweep of RX, RY with one observable: the copy lambda
\* and the copy b_0 differ from the caller's state, which is as it was
C28_Witness ==
    /\ ajPc = "sweep"
    /\ ajI = 0
    /\ operations = <<"RX", "RY">>
    /\ Len(lambdas) = 1
    /\ lambdaState # phi
    /\ lambdas[1] # phi
    /\ phi = phi0

\* trainableParams is strictly ascending
StrictlyAscending ==
    \A n \in 1..(Len(trainableParams) - 1) :
        trainableParams[n] < trainableParams[n + 1]

\* C29: when trainableParams is strictly ascending and each of its values is
\* the index of the parameter of a single-parameter gate, every write to
\* column t of jac is made for the operation whose parameter has the index
\* trainableParams[t], and a call that returns has written every column; when
\* trainableParams is empty nothing is written to jac.
C29_ColumnOfOperation ==
    /\ (StrictlyAscending /\ TrainableSingleParam) =>
           /\ \A n \in 1..Len(jacWrites) :
                  /\ jacWrites[n].slot \in 0..(Len(trainableParams) - 1)
                  /\ ParamIndices(jacWrites[n].op + 1) =
                         {trainableParams[jacWrites[n].slot + 1]}
           /\ ajPc = "returned" =>
                  \A t \in 0..(Len(trainableParams) - 1) :
                      \A j \in 0..(Len(observables) - 1) :
                          \E n \in 1..Len(jacWrites) :
                              /\ jacWrites[n].slot = t
                              /\ jacWrites[n].obs = j
    /\ trainableParams = <<>> => (jacWrites = <<>> /\ jac = <<>>)

\* RX, RY with both parameters trainable and two observables: column 1 was
\* written for RY and column 0 for RX
C29_Witness ==
    /\ ajPc = "returned"
    /\ operations = <<"RX", "RY">>
    /\ trainableParams = <<0, 1>>
    /\ Len(observables) = 2
    /\ Len(jacWrites) = 4
    /\ jacWrites[1].slot = 1 /\ jacWrites[1].op = 1
    /\ jacWrites[4].slot = 0 /\ jacWrites[4].op = 0

\* the array after operations k, k + 1, ..., last of the circuit were applied
\* to arr (positions from 1)
RECURSIVE ForwardFrom(_, _)
ForwardFrom(arr, k) ==
    IF k > Len(operations) THEN arr
    ELSE ForwardFrom(constructAndApplyOperation(dispatchTable, arr,
                         operations[k], opWires[k], opParams[k], FALSE,
                         num_qubits).arr, k + 1)

\* the array after the inverses of operations k, k - 1, ..., from were applied
\* to arr, in this order (positions from 1)
RECURSIVE InversesDownTo(_, _, _)
InversesDownTo(arr, k, from) ==
    IF k < from THEN arr
    ELSE InversesDownTo(constructAndApplyOperation(dispatchTable, arr,
                            operations[k], opWires[k], opParams[k], TRUE,
                            num_qubits).arr, k - 1, from)

\* observable j (from 1) applied to the state the circuit prepares
Observed(j) ==
    constructAndApplyOperation(dispatchTable, ForwardFrom(phi0, 1),
        observables[j], obsWires[j], obsParams[j], FALSE, num_qubits).arr

\* C30: in a backward step for operation i the copy mu is taken from lambda
\* before the inverse of operation i is applied to lambda, the entries of
\* operation i are computed from the b_j before operation i updates them, and
\* the b_j are updated afterwards and only when i > 0: at every write for
\* operation i the copy and b_j carry exactly the inverses of operations
\* i + 1 .. last, and between two steps lambda carries the inverses of all
\* operations already swept while b_j carries those of index above 0 only.
C30_StepOrder ==
    /\ \A n \in 1..Len(jacWrites) :
           /\ jacWrites[n].snapshot =
                  InversesDownTo(ForwardFrom(phi0, 1), Len(operations),
                                 jacWrites[n].op + 2)
           /\ jacWrites[n].b =
                  InversesDownTo(Observed(jacWrites[n].obs + 1),
                                 Len(operations), jacWrites[n].op + 2)
    /\ ajPc = "sweep" =>
           /\ lambdaState =
                  InversesDownTo(ForwardFrom(phi0, 1), Len(operations), ajI + 2)
           /\ \A j \in 1..Len(lambdas) :
                  lambdas[j] =
                      InversesDownTo(Observed(j), Len(operations),
                                     IF ajI + 2 > 2 THEN ajI + 2 ELSE 2)

\* RX, RY, both trainable, after the step for operation 0: its entry was
\* computed from a copy and a b_1 that carry the inverse of RY only, lambda
\* has moved on and b_1 has not
C30_Witness ==
    /\ ajPc = "sweep" /\ ajI = -1
    /\ operations = <<"RX", "RY">>
    /\ trainableParams = <<0, 1>>
    /\ Len(lambdas) = 1
    /\ \E n \in 1..Len(jacWrites) :
           /\ jacWrites[n].op = 0
           /\ jacWrites[n].snapshot # ForwardFrom(phi0, 1)
           /\ jacWrites[n].snapshot # lambdaState
           /\ jacWrites[n].b # Observed(1)
           /\ jacWrites[n].b = lambdas[1]
           /\ lambdas[1] # InversesDownTo(Observed(1), 2, 1)
====
